---------------------------- MODULE Spec2Model ----------------------------
(***************************************************************************)
(* A model of substrate.memory.MemorySystem (src/substrate/memory.py):     *)
(* a bounded FIFO short-term list, a bounded long-term list with           *)
(* score-based eviction, substring retrieval with access counting, and     *)
(* reinforcement of recent items.                                          *)
(*                                                                         *)
(* Representation.                                                         *)
(*  - A string is a sequence of one-character strings, so that `in`,       *)
(*    str() and lower() are computed and not assumed.                      *)
(*  - A content value (typed Any in the source) is a tagged record: a str  *)
(*    or a non-negative int.                                               *)
(*  - An importance is a float in the source.  Here it is the integer      *)
(*    importance * 10^7: every value reachable from 0.3, 0.5 and 0.8 by    *)
(*    x -> min(1.0, x * 1.2) is then an exact integer, and for access      *)
(*    counts up to 3 the order and the equality of the products            *)
(*    importance * access_count are the same as those of the floats        *)
(*    (at 4 accesses 0.6 * 4 and 0.8 * 3 differ as floats).                *)
(*  - A MemoryItem is a Python object with an identity; the field id is    *)
(*    that identity, numbered in order of construction.  The timestamp     *)
(*    field is written once and never read, and is left out, as is         *)
(*    working_memory, which no method touches.                             *)
(*  - Every public method runs to completion: one action per call.  For    *)
(*    the state machine of process, process is also given statement by     *)
(*    statement (SpecProcess).                                             *)
(*  - Specifications: Spec (all calls), SpecFifo (the letter workload),    *)
(*    SpecSimilar (_find_similar with a limit), SpecProcess (process in    *)
(*    steps, with failures), SpecCalls (calls on record, a wider STM) and  *)
(*    SpecTwo (two objects).                                               *)
(***************************************************************************)
EXTENDS Integers, Sequences, FiniteSets, TLC

(***************************************************************************)
(* Bounds of the model.                                                    *)
(***************************************************************************)
\* stm_capacity is drawn from 0..MaxStmCapacity
MaxStmCapacity == 3
\* ltm_capacity is drawn from 0..MaxLtmCapacity
MaxLtmCapacity == 2
\* MemoryItem objects constructed in one run
MaxItems == 5
\* a search is started only while every access_count is below this
MaxAccess == 1
\* reinforcing updates in one run
MaxReinforce == 1
\* _find_similar is called with a limit drawn from 0..MaxLimit
MaxLimit == 2
\* stm_capacity of the recorded workload is drawn from 0..WideStmCapacity
WideStmCapacity == 4
\* with two objects: each capacity is drawn from 0..TwoCapacity
TwoCapacity == 1
\* with two objects: MemoryItem objects constructed in one run
TwoItems == 4
\* with two threads: MemoryItem objects constructed before the threads start
RaceItems == 2
\* task requests passed to AgentCoordinator.process in one run
MaxRequests == 4
\* the workload that fills the limit of _find_similar: the largest
\* stm_capacity, and the MemoryItem objects constructed in one run
ScanCapacity == 6
ScanItems == 6

(***************************************************************************)
(* Program constants.                                                      *)
(***************************************************************************)
\* 1.0 on the importance scale
One == 10000000
\* the promotion threshold 0.5 of _store_stm
PromotionThreshold == 5000000
\* the default importance 0.5 of MemoryItem and store
DefaultImportance == 5000000
\* the reinforcement factor 1.2, in tenths
ReinforceTenths == 12
\* the number of recent items update reinforces
ReinforceWindow == 3
\* the default limit of _find_similar
DefaultLimit == 5
\* the confidence 0.9 of the Thought process returns, in tenths
ProcessConfidenceTenths == 9
\* the default stm_capacity and ltm_capacity of MemorySystem.__init__
DefaultStmCapacity == 7
DefaultLtmCapacity == 1000

VARIABLES
    stm_capacity,       \* self.stm_capacity
    ltm_capacity,       \* self.ltm_capacity
    short_term_memory,  \* self.short_term_memory: sequence of items
    long_term_memory,   \* self.long_term_memory: sequence of items
    state,              \* self.state
    next_id,            \* identity of the next MemoryItem constructed
    ret,                \* what the last public call returned
    oldest,             \* the item the last call popped off STM, or NoItem
    removed,            \* the item the last call popped off LTM, or NoItem
    stm_epoch,          \* next_id when STM was last cleared (1 at first)
    reinforcements,     \* history: the reinforcing updates so far
    uniform,            \* history: the run so far is n stores of one importance
    call,               \* the call in progress or the last one made, where recorded
    other,              \* a second MemorySystem object, where there is one
    threads,            \* the retrieve calls of two threads, where there are threads
    siblings            \* the ReasoningEngine, LearningEngine and AgentCoordinator

vars == <<stm_capacity, ltm_capacity, short_term_memory, long_term_memory,
          state, next_id, ret, oldest, removed, stm_epoch, reinforcements,
          uniform, call, other, threads, siblings>>

(***************************************************************************)
(* Strings and content values.                                             *)
(***************************************************************************)
StrContent(t) == [kind |-> "str", text |-> t, num |-> 0]
IntContent(n) == [kind |-> "int", text |-> <<>>, num |-> n]
NoContent == [kind |-> "none", text |-> <<>>, num |-> 0]

Cat == <<"c", "a", "t">>
CatUpper == <<"C", "A", "T">>
CatsAreGreat ==
    <<"c", "a", "t", "s", " ", "a", "r", "e", " ", "g", "r", "e", "a", "t">>
Dog == <<"d", "o", "g">>
Empty == <<>>

UpperChars == <<"A", "B", "C", "D", "E", "F", "G", "H", "I", "J", "K", "L", "M",
                "N", "O", "P", "Q", "R", "S", "T", "U", "V", "W", "X", "Y", "Z">>
LowerChars == <<"a", "b", "c", "d", "e", "f", "g", "h", "i", "j", "k", "l", "m",
                "n", "o", "p", "q", "r", "s", "t", "u", "v", "w", "x", "y", "z">>
DigitChars == <<"0", "1", "2", "3", "4", "5", "6", "7", "8", "9">>

\* the characters strings are made of
Chars == {UpperChars[i] : i \in 1..Len(UpperChars)}
         \cup {LowerChars[i] : i \in 1..Len(LowerChars)}
         \cup {DigitChars[i] : i \in 1..Len(DigitChars)} \cup {" "}

\* str.lower() on one character: an upper-case letter becomes the lower-case
\* letter at the same place of the alphabet, any other character is kept
LowerChar ==
    [c \in Chars |->
        IF \E i \in 1..Len(UpperChars) : UpperChars[i] = c
        THEN LowerChars[CHOOSE i \in 1..Len(UpperChars) : UpperChars[i] = c]
        ELSE c]

\* str.lower()
Lower(s) == [i \in 1..Len(s) |-> LowerChar[s[i]]]

\* str(n) for an int n >= 0
RECURSIVE IntStr(_)
IntStr(n) ==
    IF n < 10 THEN <<DigitChars[n + 1]>>
    ELSE IntStr(n \div 10) \o <<DigitChars[(n % 10) + 1]>>

\* str(content)
Str(c) == IF c.kind = "int" THEN IntStr(c.num) ELSE c.text

\* Python's  a in b  on two strings
IsIn(a, b) ==
    \E i \in 0..(Len(b) - Len(a)) : SubSeq(b, i + 1, i + Len(a)) = a

(***************************************************************************)
(* The content values of the model: what is stored and what is asked for.  *)
(***************************************************************************)
\* 1.0 on the importance scale is One
Importance(tenths) == tenths * (One \div 10)
NoTags == <<>>

\* store(content, importance, tags); tags None stands for []
StoreInputs ==
    { [content |-> StrContent(Cat), importance |-> Importance(8), tags |-> NoTags],
      [content |-> StrContent(CatsAreGreat), importance |-> Importance(8),
       tags |-> <<"pets">>] }

\* process(input_data)
ProcessInputs == {IntContent(12)}

\* retrieve(query, memory_type)
Queries == {StrContent(CatUpper), StrContent(CatsAreGreat), StrContent(Dog),
            StrContent(Empty)}
MemoryTypes == {"all", "short_term", "long_term", "working"}

\* update(feedback): the keys of the mapping
Feedbacks == {{}, {"reinforce"}, {"strength"}}

\* the k-th letter, the content of the k-th item of the FIFO workload
Letter(k) == StrContent(<<UpperChars[k]>>)

Universe == {x.content : x \in StoreInputs} \cup ProcessInputs \cup Queries
            \cup {Letter(k) : k \in 1..Len(UpperChars)}

\* Contains[a][b]:  str(a).lower() in str(b).lower(), worked out once for
\* each pair of content values
Contains ==
    [a \in Universe |->
        [b \in Universe |-> IsIn(Lower(Str(a)), Lower(Str(b)))]]

(***************************************************************************)
(* MemoryItem.                                                             *)
(***************************************************************************)

MemoryItem(id, content, importance, tags) ==
    [id |-> id, content |-> content, access_count |-> 0,
     importance |-> importance, tags |-> tags]

NoItem == [id |-> 0, content |-> NoContent, access_count |-> 0,
           importance |-> 0, tags |-> NoTags]

\* mutant: an access counted twice
AccessTwice(item) == [item EXCEPT !.access_count = @ + 2]

\* MemoryItem.access
Access(item) == [item EXCEPT !.access_count = @ + 1]

\* the eviction key of _consolidate_to_ltm
Score(item) == item.importance * item.access_count

Contents(list) == [i \in 1..Len(list) |-> list[i].content]
Ids(list) == [i \in 1..Len(list) |-> list[i].id]
Range(s) == {s[i] : i \in 1..Len(s)}

(***************************************************************************)
(* list.sort(key = importance * access_count): a stable sort.              *)
(***************************************************************************)
\* mutant: x put before the elements whose key equals its own, which makes
\* the sort put equal keys in reverse order
RECURSIVE InsertBeforeTies(_, _)
InsertBeforeTies(s, x) ==
    IF s = <<>> THEN <<x>>
    ELSE IF Score(x) <= Score(Head(s)) THEN <<x>> \o s
    ELSE <<Head(s)>> \o InsertBeforeTies(Tail(s), x)

\* x put into the sorted sequence s after every element whose key is <= its own
RECURSIVE InsertByScore(_, _)
InsertByScore(s, x) ==
    IF s = <<>> THEN <<x>>
    ELSE IF Score(x) < Score(Head(s)) THEN <<x>> \o s
    ELSE <<Head(s)>> \o InsertByScore(Tail(s), x)

RECURSIVE SortSteps(_, _)
SortSteps(sorted, rest) ==
    IF rest = <<>> THEN sorted
    ELSE SortSteps(InsertByScore(sorted, Head(rest)), Tail(rest))

SortByScore(s) == SortSteps(<<>>, s)

(***************************************************************************)
(* _consolidate_to_ltm and _store_stm, as functions of the two lists.      *)
(***************************************************************************)
\* mutant: the capacity check of _consolidate_to_ltm left out
ConsolidateUnbounded(ltm, item, capacity) ==
    [ltm |-> Append(ltm, item), removed |-> NoItem]

\* mutant: pop(0) without the sort before it
ConsolidateUnsorted(ltm, item, capacity) ==
    LET appended == Append(ltm, item)
    IN  IF Len(appended) > capacity
        THEN [ltm |-> Tail(appended), removed |-> Head(appended)]
        ELSE [ltm |-> appended, removed |-> NoItem]

\* mutant: the promotion counted as an access of the item
ConsolidateAccessing(ltm, item, capacity) ==
    LET appended == Append(ltm, Access(item))
        sorted == SortByScore(appended)
    IN  IF Len(appended) > capacity
        THEN [ltm |-> Tail(sorted), removed |-> Head(sorted)]
        ELSE [ltm |-> appended, removed |-> NoItem]

\* _consolidate_to_ltm: the new LTM and the item popped, if any
ConsolidateToLtm(ltm, item, capacity) ==
    LET appended == Append(ltm, item)
        sorted == SortByScore(appended)
    IN  IF Len(appended) > capacity
        THEN [ltm |-> Tail(sorted), removed |-> Head(sorted)]
        ELSE [ltm |-> appended, removed |-> NoItem]

\* mutant: >= in place of >
PromotedAtThreshold(item) == item.importance >= PromotionThreshold

\* the test  oldest.importance > 0.5
Promoted(item) == item.importance > PromotionThreshold

\* mutant: the capacity test of _store_stm off by one
StoreStmOffByOne(stm, ltm, item, stm_cap, ltm_cap) ==
    LET appended == Append(stm, item)
    IN  IF Len(appended) > stm_cap + 1
        THEN LET old == Head(appended)
                 c == ConsolidateToLtm(ltm, old, ltm_cap)
             IN  IF Promoted(old)
                 THEN [stm |-> Tail(appended), ltm |-> c.ltm,
                       oldest |-> old, removed |-> c.removed]
                 ELSE [stm |-> Tail(appended), ltm |-> ltm,
                       oldest |-> old, removed |-> NoItem]
        ELSE [stm |-> appended, ltm |-> ltm,
              oldest |-> NoItem, removed |-> NoItem]

\* mutant: pop() in place of pop(0): the newest item leaves STM
StoreStmPopsNewest(stm, ltm, item, stm_cap, ltm_cap) ==
    LET appended == Append(stm, item)
    IN  IF Len(appended) > stm_cap
        THEN LET c == ConsolidateToLtm(ltm, item, ltm_cap)
             IN  IF Promoted(item)
                 THEN [stm |-> stm, ltm |-> c.ltm,
                       oldest |-> item, removed |-> c.removed]
                 ELSE [stm |-> stm, ltm |-> ltm,
                       oldest |-> item, removed |-> NoItem]
        ELSE [stm |-> appended, ltm |-> ltm,
              oldest |-> NoItem, removed |-> NoItem]

\* mutant: the oldest item read with [0] and not popped: it is copied to LTM
\* and stays in STM
StoreStmCopies(stm, ltm, item, stm_cap, ltm_cap) ==
    LET appended == Append(stm, item)
    IN  IF Len(appended) > stm_cap
        THEN LET old == Head(appended)
                 c == ConsolidateToLtm(ltm, old, ltm_cap)
             IN  IF Promoted(old)
                 THEN [stm |-> appended, ltm |-> c.ltm,
                       oldest |-> old, removed |-> c.removed]
                 ELSE [stm |-> appended, ltm |-> ltm,
                       oldest |-> old, removed |-> NoItem]
        ELSE [stm |-> appended, ltm |-> ltm,
              oldest |-> NoItem, removed |-> NoItem]

\* mutant: the item popped off LTM put back at the end of STM
StoreStmDemotes(stm, ltm, item, stm_cap, ltm_cap) ==
    LET appended == Append(stm, item)
    IN  IF Len(appended) > stm_cap
        THEN LET old == Head(appended)
                 c == ConsolidateToLtm(ltm, old, ltm_cap)
             IN  IF Promoted(old)
                 THEN [stm |-> IF c.removed # NoItem
                               THEN Append(Tail(appended), c.removed)
                               ELSE Tail(appended),
                       ltm |-> c.ltm,
                       oldest |-> old, removed |-> c.removed]
                 ELSE [stm |-> Tail(appended), ltm |-> ltm,
                       oldest |-> old, removed |-> NoItem]
        ELSE [stm |-> appended, ltm |-> ltm,
              oldest |-> NoItem, removed |-> NoItem]

\* _store_stm: the new STM and LTM, the item popped off STM and off LTM
StoreStm(stm, ltm, item, stm_cap, ltm_cap) ==
    LET appended == Append(stm, item)
    IN  IF Len(appended) > stm_cap
        THEN LET old == Head(appended)
                 c == ConsolidateToLtm(ltm, old, ltm_cap)
             IN  IF Promoted(old)
                 THEN [stm |-> Tail(appended), ltm |-> c.ltm,
                       oldest |-> old, removed |-> c.removed]
                 ELSE [stm |-> Tail(appended), ltm |-> ltm,
                       oldest |-> old, removed |-> NoItem]
        ELSE [stm |-> appended, ltm |-> ltm,
              oldest |-> NoItem, removed |-> NoItem]

(***************************************************************************)
(* _search_memory and _find_similar.                                       *)
(***************************************************************************)
\* the test of _search_memory:  query_str in str(item.content).lower()
SearchMatch(query, item) == Contains[query][item.content]

\* the test of _find_similar: containment in either direction
SimilarMatch(content, item) ==
    \/ Contains[content][item.content]
    \/ Contains[item.content][content]

\* _search_memory: the contents returned and the list after the accesses
SearchMemory(memory_list, query) ==
    [results |-> Contents(SelectSeq(memory_list,
                                    LAMBDA item : SearchMatch(query, item))),
     list |-> [i \in 1..Len(memory_list) |->
                  IF SearchMatch(query, memory_list[i])
                  THEN Access(memory_list[i]) ELSE memory_list[i]]]

\* the loop of _find_similar from position i on, similar being what is found
RECURSIVE FindSimilarFrom(_, _, _, _, _)
FindSimilarFrom(all, i, content, limit, similar) ==
    IF i > Len(all) THEN [similar |-> similar, all |-> all]
    ELSE IF SimilarMatch(content, all[i])
    THEN LET found == Append(similar, all[i].content)
             touched == [all EXCEPT ![i] = Access(all[i])]
         IN  IF Len(found) >= limit
             THEN [similar |-> found, all |-> touched]
             ELSE FindSimilarFrom(touched, i + 1, content, limit, found)
    ELSE FindSimilarFrom(all, i + 1, content, limit, similar)

\* _find_similar over STM + LTM: the contents found and the two lists after
FindSimilar(stm, ltm, content, limit) ==
    LET r == FindSimilarFrom(stm \o ltm, 1, content, limit, <<>>)
    IN  [similar |-> r.similar,
         stm |-> SubSeq(r.all, 1, Len(stm)),
         ltm |-> SubSeq(r.all, Len(stm) + 1, Len(stm) + Len(ltm))]

\* get_stm_contents, get_ltm_contents
get_stm_contents == Contents(short_term_memory)
get_ltm_contents == Contents(long_term_memory)

(***************************************************************************)
(* The calls.                                                              *)
(***************************************************************************)
NoReturn == [kind |-> "none", results |-> <<>>, stored |-> NoContent,
             confidence |-> 0]

\* no call recorded
NoCall == [op |-> "", on |-> "a", pc |-> "done", prior |-> "",
           arg |-> NoContent, memory_type |-> "",
           feedback |-> {}, raised |-> FALSE, similar |-> <<>>,
           stm |-> <<>>, ltm |-> <<>>]
\* no second object
NoInstance == [made |-> FALSE]
\* no threads
NoThreads == [mode |-> "none"]
\* no sibling modules
NoSiblings == [made |-> FALSE]
\* the calls of a specification that records no call and has one object
Unrecorded == UNCHANGED <<call, other, threads, siblings>>

\* self.state after CognitiveModule.__init__, which is in substrate/core.py
\* and not among the sources: by the state machine of the specification a
\* module is IDLE until process is entered
InitialState == "IDLE"

AllItems == Range(short_term_memory) \cup Range(long_term_memory)
\* no item the search would touch has reached the bound on access counts
CanSearch(touched) == \A item \in touched : item.access_count < MaxAccess
Broken == [importance |-> -1, count |-> 0]

Init ==
    /\ stm_capacity \in 0..MaxStmCapacity
    /\ ltm_capacity \in 0..MaxLtmCapacity
    /\ short_term_memory = <<>>
    /\ long_term_memory = <<>>
    /\ state = InitialState
    /\ next_id = 1
    /\ ret = NoReturn
    /\ oldest = NoItem
    /\ removed = NoItem
    /\ stm_epoch = 1
    /\ reinforcements = 0
    /\ uniform = [importance |-> 0, count |-> 0]
    /\ call = NoCall
    /\ other = NoInstance
    /\ threads = NoThreads
    /\ siblings = NoSiblings

\* MemorySystem.store
Store(content, importance, tags) ==
    /\ next_id <= MaxItems
    /\ LET item == MemoryItem(next_id, content, importance, tags)
           r == StoreStm(short_term_memory, long_term_memory, item,
                         stm_capacity, ltm_capacity)
       IN  /\ short_term_memory' = r.stm
           /\ long_term_memory' = r.ltm
           /\ oldest' = r.oldest
           /\ removed' = r.removed
    /\ next_id' = next_id + 1
    /\ ret' = NoReturn
    /\ uniform' = IF uniform.count = 0 /\ uniform.importance = 0
                  THEN [importance |-> importance, count |-> 1]
                  ELSE IF uniform.importance = importance
                  THEN [uniform EXCEPT !.count = @ + 1]
                  ELSE Broken
    /\ UNCHANGED <<stm_capacity, ltm_capacity, state, stm_epoch, reinforcements>>

\* mutant: the item of process constructed with the confidence 0.9 of the
\* Thought as its importance
ProcessWithConfidence(input_data) ==
    /\ next_id <= MaxItems
    /\ CanSearch({item \in AllItems : SimilarMatch(input_data, item)})
    /\ LET item == MemoryItem(next_id, input_data,
                              Importance(ProcessConfidenceTenths), NoTags)
           r == StoreStm(short_term_memory, long_term_memory, item,
                         stm_capacity, ltm_capacity)
           f == FindSimilar(r.stm, r.ltm, input_data, DefaultLimit)
       IN  /\ short_term_memory' = f.stm
           /\ long_term_memory' = f.ltm
           /\ oldest' = r.oldest
           /\ removed' = r.removed
           /\ ret' = [kind |-> "thought", results |-> f.similar,
                      stored |-> input_data,
                      confidence |-> ProcessConfidenceTenths]
    /\ state' = "IDLE"
    /\ next_id' = next_id + 1
    /\ uniform' = Broken
    /\ UNCHANGED <<stm_capacity, ltm_capacity, stm_epoch, reinforcements>>

\* MemorySystem.process: state is PROCESSING inside the call and IDLE again
\* when it returns
Process(input_data) ==
    /\ next_id <= MaxItems
    /\ CanSearch({item \in AllItems : SimilarMatch(input_data, item)})
    /\ LET item == MemoryItem(next_id, input_data, DefaultImportance, NoTags)
           r == StoreStm(short_term_memory, long_term_memory, item,
                         stm_capacity, ltm_capacity)
           f == FindSimilar(r.stm, r.ltm, input_data, DefaultLimit)
       IN  /\ short_term_memory' = f.stm
           /\ long_term_memory' = f.ltm
           /\ oldest' = r.oldest
           /\ removed' = r.removed
           /\ ret' = [kind |-> "thought", results |-> f.similar,
                      stored |-> input_data,
                      confidence |-> ProcessConfidenceTenths]
    /\ state' = "IDLE"
    /\ next_id' = next_id + 1
    /\ uniform' = Broken
    /\ UNCHANGED <<stm_capacity, ltm_capacity, stm_epoch, reinforcements>>

\* mutant: a memory_type that is not "short_term" or "long_term" taken as
\* "all"
RetrieveDefaultsToAll(query, memory_type) ==
    /\ CanSearch({item \in AllItems : SearchMatch(query, item)})
    /\ LET in_stm == memory_type # "long_term"
           in_ltm == memory_type # "short_term"
           s == SearchMemory(short_term_memory, query)
           l == SearchMemory(long_term_memory, query)
       IN  /\ short_term_memory' = IF in_stm THEN s.list ELSE short_term_memory
           /\ long_term_memory' = IF in_ltm THEN l.list ELSE long_term_memory
           /\ ret' = [NoReturn EXCEPT
                        !.kind = "list",
                        !.results = (IF in_stm THEN s.results ELSE <<>>)
                                    \o (IF in_ltm THEN l.results ELSE <<>>)]
    /\ oldest' = NoItem
    /\ removed' = NoItem
    /\ uniform' = Broken
    /\ UNCHANGED <<stm_capacity, ltm_capacity, state, next_id, stm_epoch,
                   reinforcements>>

\* MemorySystem.retrieve
Retrieve(query, memory_type) ==
    /\ CanSearch({item \in AllItems : SearchMatch(query, item)})
    /\ LET in_stm == memory_type \in {"all", "short_term"}
           in_ltm == memory_type \in {"all", "long_term"}
           s == SearchMemory(short_term_memory, query)
           l == SearchMemory(long_term_memory, query)
       IN  /\ short_term_memory' = IF in_stm THEN s.list ELSE short_term_memory
           /\ long_term_memory' = IF in_ltm THEN l.list ELSE long_term_memory
           /\ ret' = [NoReturn EXCEPT
                        !.kind = "list",
                        !.results = (IF in_stm THEN s.results ELSE <<>>)
                                    \o (IF in_ltm THEN l.results ELSE <<>>)]
    /\ oldest' = NoItem
    /\ removed' = NoItem
    /\ uniform' = Broken
    /\ UNCHANGED <<stm_capacity, ltm_capacity, state, next_id, stm_epoch,
                   reinforcements>>

\* min(1.0, importance * 1.2)
Reinforced(importance) ==
    LET raised == (importance * ReinforceTenths) \div 10
    IN  IF raised < One THEN raised ELSE One

\* update, lines 160-161: the last three items of a list reinforced
ReinforceRecent(stm) ==
    [i \in 1..Len(stm) |->
        IF i > Len(stm) - ReinforceWindow
        THEN [stm[i] EXCEPT !.importance = Reinforced(@)]
        ELSE stm[i]]

\* mutant: every STM item reinforced, not the last three
UpdateReinforcesAll(feedback) ==
    /\ "reinforce" \in feedback => reinforcements < MaxReinforce
    /\ reinforcements' = IF "reinforce" \in feedback
                         THEN reinforcements + 1 ELSE reinforcements
    /\ short_term_memory' =
          IF "reinforce" \in feedback
          THEN [i \in 1..Len(short_term_memory) |->
                   [short_term_memory[i] EXCEPT !.importance = Reinforced(@)]]
          ELSE short_term_memory
    /\ ret' = NoReturn
    /\ oldest' = NoItem
    /\ removed' = NoItem
    /\ uniform' = Broken
    /\ UNCHANGED <<stm_capacity, ltm_capacity, long_term_memory, state,
                   next_id, stm_epoch>>

\* mutant: the test for the "reinforce" key left out
UpdateAlways(feedback) ==
    /\ reinforcements' = reinforcements
    /\ short_term_memory' = ReinforceRecent(short_term_memory)
    /\ ret' = NoReturn
    /\ oldest' = NoItem
    /\ removed' = NoItem
    /\ uniform' = Broken
    /\ UNCHANGED <<stm_capacity, ltm_capacity, long_term_memory, state,
                   next_id, stm_epoch>>

\* MemorySystem.update
Update(feedback) ==
    /\ "reinforce" \in feedback => reinforcements < MaxReinforce
    /\ reinforcements' = IF "reinforce" \in feedback
                         THEN reinforcements + 1 ELSE reinforcements
    /\ short_term_memory' =
          IF "reinforce" \in feedback
          THEN ReinforceRecent(short_term_memory)
          ELSE short_term_memory
    /\ ret' = NoReturn
    /\ oldest' = NoItem
    /\ removed' = NoItem
    /\ uniform' = Broken
    /\ UNCHANGED <<stm_capacity, ltm_capacity, long_term_memory, state,
                   next_id, stm_epoch>>

\* mutant: clear_stm moving the important items to LTM before it clears
ClearStmPromoting ==
    /\ short_term_memory' = <<>>
    /\ long_term_memory' =
          long_term_memory
          \o SelectSeq(short_term_memory, LAMBDA item : Promoted(item))
    /\ stm_epoch' = next_id
    /\ ret' = NoReturn
    /\ oldest' = NoItem
    /\ removed' = NoItem
    /\ uniform' = Broken
    /\ UNCHANGED <<stm_capacity, ltm_capacity, state, next_id, reinforcements>>

\* MemorySystem.clear_stm
ClearStm ==
    /\ short_term_memory' = <<>>
    /\ stm_epoch' = next_id
    /\ ret' = NoReturn
    /\ oldest' = NoItem
    /\ removed' = NoItem
    /\ uniform' = Broken
    /\ UNCHANGED <<stm_capacity, ltm_capacity, long_term_memory, state,
                   next_id, reinforcements>>

\* MemorySystem.clear_ltm
ClearLtm ==
    /\ long_term_memory' = <<>>
    /\ ret' = NoReturn
    /\ oldest' = NoItem
    /\ removed' = NoItem
    /\ uniform' = Broken
    /\ UNCHANGED <<stm_capacity, ltm_capacity, short_term_memory, state,
                   next_id, stm_epoch, reinforcements>>

Next ==
    \/ \E x \in StoreInputs :
          Store(x.content, x.importance, x.tags) /\ Unrecorded
    \/ \E x \in ProcessInputs : Process(x) /\ Unrecorded
    \/ \E q \in Queries, t \in MemoryTypes : Retrieve(q, t) /\ Unrecorded
    \/ \E f \in Feedbacks : Update(f) /\ Unrecorded
    \/ ClearStm /\ Unrecorded
    \/ ClearLtm /\ Unrecorded

Spec == Init /\ [][Next]_vars

(***************************************************************************)
(* The FIFO workload: the k-th item constructed holds the k-th letter, so  *)
(* that the items of a run are A, B, C, ... in the order they were stored; *)
(* only store, process and clear_stm are called.                           *)
(***************************************************************************)
FifoImportances == {Importance(3), Importance(8)}

NextFifo ==
    \/ \E i \in FifoImportances :
          Store(Letter(next_id), i, NoTags) /\ Unrecorded
    \/ Process(Letter(next_id)) /\ Unrecorded
    \/ ClearStm /\ Unrecorded

SpecFifo == Init /\ [][NextFifo]_vars

(***************************************************************************)
(* The search workload: _find_similar called on its own, with a limit of   *)
(* the caller's choice, next to store and retrieve.                        *)
(***************************************************************************)
Limits == 0..MaxLimit

\* MemorySystem._find_similar(content, limit)
FindSimilarCall(content, limit) ==
    /\ LET f == FindSimilar(short_term_memory, long_term_memory, content, limit)
       IN  /\ \A item \in Range(f.stm) \cup Range(f.ltm) :
                 item.access_count <= MaxAccess
           /\ short_term_memory' = f.stm
           /\ long_term_memory' = f.ltm
           /\ ret' = [NoReturn EXCEPT !.kind = "similar",
                                      !.results = f.similar]
    /\ oldest' = NoItem
    /\ removed' = NoItem
    /\ uniform' = Broken
    /\ UNCHANGED <<stm_capacity, ltm_capacity, state, next_id, stm_epoch,
                   reinforcements>>

NextSimilar ==
    \/ \E x \in StoreInputs :
          Store(x.content, x.importance, x.tags) /\ Unrecorded
    \/ \E q \in Queries, limit \in Limits :
          FindSimilarCall(q, limit) /\ Unrecorded
    \/ \E q \in Queries : Retrieve(q, "all") /\ Unrecorded

SpecSimilar == Init /\ [][NextSimilar]_vars


(***************************************************************************)
(* process, statement by statement: the assignment to self.state, the      *)
(* store, the search, and the finally clause, which runs on return and on  *)
(* an exception alike.  An exception is raised by str() of a content whose *)
(* __str__ raises; the calls do not overlap (the module is single-threaded *)
(* and synchronous), so a call starts only when none is in progress.       *)
(***************************************************************************)
\* an object whose __str__ raises
Unprintable == [kind |-> "obj", text |-> <<>>, num |-> 0]
Printable(c) == c.kind # "obj"

StepInputs == {StrContent(Cat), Unprintable}

\* no call is in progress
Returned == call.pc = "done"

\* a call in progress is a process call
InProcess == call.op = "process" /\ call.pc # "done"

\* _find_similar over lists that may hold unprintable contents: str() raises
\* at line 105 for an unprintable argument and at line 111 when the loop
\* comes to an unprintable item, the items before it having been accessed
FindSimilarGuarded(stm, ltm, content, limit) ==
    LET all == stm \o ltm
        bad == {i \in 1..Len(all) : ~Printable(all[i].content)}
        j == IF bad = {} THEN Len(all) + 1
             ELSE CHOOSE i \in bad : \A k \in bad : i <= k
    IN  IF ~Printable(content)
        THEN [raised |-> TRUE, similar |-> <<>>, stm |-> stm, ltm |-> ltm]
        ELSE LET r == FindSimilarFrom(SubSeq(all, 1, j - 1), 1, content,
                                      limit, <<>>)
                 after == r.all \o SubSeq(all, j, Len(all))
                 stopped == r.similar # <<>> /\ Len(r.similar) >= limit
                 raised == j <= Len(all) /\ ~stopped
             IN  [raised |-> raised,
                  similar |-> IF raised THEN <<>> ELSE r.similar,
                  stm |-> SubSeq(after, 1, Len(stm)),
                  ltm |-> SubSeq(after, Len(stm) + 1, Len(all))]

\* process, line 55: self.state = CognitiveState.PROCESSING
ProcessEnter(input_data) ==
    /\ Returned
    /\ next_id <= MaxItems
    /\ Printable(input_data) =>
          CanSearch({item \in AllItems :
                       Printable(item.content) /\ SimilarMatch(input_data, item)})
    /\ state' = "PROCESSING"
    /\ call' = [NoCall EXCEPT !.op = "process", !.pc = "store",
                              !.prior = call.op, !.arg = input_data,
                              !.stm = short_term_memory,
                              !.ltm = long_term_memory]
    /\ UNCHANGED <<stm_capacity, ltm_capacity, short_term_memory,
                   long_term_memory, next_id, ret, oldest, removed, stm_epoch,
                   reinforcements, uniform, other,
                   threads, siblings>>

\* process, lines 59-60: the item is constructed and stored
ProcessStore ==
    /\ InProcess /\ call.pc = "store"
    /\ LET item == MemoryItem(next_id, call.arg, DefaultImportance, NoTags)
           r == StoreStm(short_term_memory, long_term_memory, item,
                         stm_capacity, ltm_capacity)
       IN  /\ short_term_memory' = r.stm
           /\ long_term_memory' = r.ltm
           /\ oldest' = r.oldest
           /\ removed' = r.removed
    /\ next_id' = next_id + 1
    /\ uniform' = Broken
    /\ call' = [call EXCEPT !.pc = "find"]
    /\ UNCHANGED <<stm_capacity, ltm_capacity, state, ret, stm_epoch,
                   reinforcements, other,
                   threads, siblings>>

\* process, lines 63-73: the search; it returns, or str() raises
ProcessFind ==
    /\ InProcess /\ call.pc = "find"
    /\ LET f == FindSimilarGuarded(short_term_memory, long_term_memory,
                                   call.arg, DefaultLimit)
       IN  /\ short_term_memory' = f.stm
           /\ long_term_memory' = f.ltm
           /\ call' = [call EXCEPT !.pc = "finally", !.raised = f.raised,
                                   !.similar = f.similar]
    /\ UNCHANGED <<stm_capacity, ltm_capacity, state, next_id, ret, oldest,
                   removed, stm_epoch, reinforcements, uniform, other,
                   threads, siblings>>

\* mutant: the state reset placed before the return, without try/finally
ProcessFinallyOnReturn ==
    /\ InProcess /\ call.pc = "finally"
    /\ state' = IF call.raised THEN state ELSE "IDLE"
    /\ ret' = IF call.raised THEN [NoReturn EXCEPT !.kind = "raised"]
              ELSE [kind |-> "thought", results |-> call.similar,
                    stored |-> call.arg,
                    confidence |-> ProcessConfidenceTenths]
    /\ call' = [call EXCEPT !.pc = "done"]
    /\ UNCHANGED <<stm_capacity, ltm_capacity, short_term_memory,
                   long_term_memory, next_id, oldest, removed, stm_epoch,
                   reinforcements, uniform, other,
                   threads, siblings>>

\* process, lines 75-77: the finally clause, then the return or the exception
ProcessFinally ==
    /\ InProcess /\ call.pc = "finally"
    /\ state' = "IDLE"
    /\ ret' = IF call.raised THEN [NoReturn EXCEPT !.kind = "raised"]
              ELSE [kind |-> "thought", results |-> call.similar,
                    stored |-> call.arg,
                    confidence |-> ProcessConfidenceTenths]
    /\ call' = [call EXCEPT !.pc = "done"]
    /\ UNCHANGED <<stm_capacity, ltm_capacity, short_term_memory,
                   long_term_memory, next_id, oldest, removed, stm_epoch,
                   reinforcements, uniform, other,
                   threads, siblings>>

\* a call that runs in one step, recorded: its name, its argument and the
\* stores before it
Recorded(op, arg, feedback) ==
    /\ Returned
    /\ call' = [NoCall EXCEPT !.op = op, !.prior = call.op, !.arg = arg,
                              !.feedback = feedback,
                              !.stm = short_term_memory,
                              !.ltm = long_term_memory]
    /\ UNCHANGED <<other, threads, siblings>>

NextProcess ==
    \/ \E x \in StepInputs : ProcessEnter(x)
    \/ ProcessStore
    \/ ProcessFind
    \/ ProcessFinally
    \/ \E x \in StoreInputs :
          /\ Store(x.content, x.importance, x.tags)
          /\ Recorded("store", x.content, {})
    \/ ClearStm /\ Recorded("clear_stm", NoContent, {})

SpecProcess == Init /\ [][NextProcess]_vars

(***************************************************************************)
(* The recorded workload: every public call in one step, with the call and *)
(* the stores before it on record, and an STM wide enough to hold more     *)
(* items than update reinforces.                                           *)
(***************************************************************************)
CallStoreInputs ==
    { [content |-> StrContent(Cat), importance |-> DefaultImportance,
       tags |-> NoTags],
      [content |-> StrContent(Dog), importance |-> Importance(9),
       tags |-> <<"pets">>] }

CallProcessInputs == {StrContent(Cat)}

InitCalls ==
    /\ stm_capacity \in 0..WideStmCapacity
    /\ ltm_capacity \in 0..MaxLtmCapacity
    /\ short_term_memory = <<>>
    /\ long_term_memory = <<>>
    /\ state = InitialState
    /\ next_id = 1
    /\ ret = NoReturn
    /\ oldest = NoItem
    /\ removed = NoItem
    /\ stm_epoch = 1
    /\ reinforcements = 0
    /\ uniform = [importance |-> 0, count |-> 0]
    /\ call = NoCall
    /\ other = NoInstance
    /\ threads = NoThreads
    /\ siblings = NoSiblings

NextCalls ==
    \/ \E x \in CallStoreInputs :
          /\ Store(x.content, x.importance, x.tags)
          /\ Recorded("store", x.content, {})
    \/ \E x \in CallProcessInputs : Process(x) /\ Recorded("process", x, {})
    \/ \E f \in Feedbacks : Update(f) /\ Recorded("update", NoContent, f)
    \/ ClearStm /\ Recorded("clear_stm", NoContent, {})
    \/ ClearLtm /\ Recorded("clear_ltm", NoContent, {})

SpecCalls == InitCalls /\ [][NextCalls]_vars

(***************************************************************************)
(* Two MemorySystem objects, a and b.  The variables above are the fields  *)
(* of a; other holds the fields of b.  A list is a Python object that a    *)
(* field refers to: the fields of b hold references, "b.stm" and "b.ltm"   *)
(* for the lists __init__ creates for b, kept in other.heap, and "a.stm"   *)
(* and "a.ltm" for the two lists of a.  Every method works on the list its *)
(* field refers to.  Item identities come from the one counter next_id.    *)
(***************************************************************************)
\* mutant: the lists made once and shared by every object (class attributes,
\* or mutable default arguments)
SharedLists == [short_term_memory |-> "a.stm", long_term_memory |-> "a.ltm"]

\* __init__, lines 39-40: each [] is a new list object
NewLists == [short_term_memory |-> "b.stm", long_term_memory |-> "b.ltm"]

\* the list a reference of b refers to
Deref(ref) ==
    IF ref = "a.stm" THEN short_term_memory
    ELSE IF ref = "a.ltm" THEN long_term_memory
    ELSE other.heap[ref]

\* b.short_term_memory, b.long_term_memory
OtherStm == Deref(other.short_term_memory)
OtherLtm == Deref(other.long_term_memory)

\* b = MemorySystem(stm_capacity = stm_cap, ltm_capacity = ltm_cap)
ConstructOther(stm_cap, ltm_cap) ==
    /\ ~other.made
    /\ Returned
    /\ other' = [made |-> TRUE,
                 short_term_memory |-> NewLists.short_term_memory,
                 long_term_memory |-> NewLists.long_term_memory,
                 heap |-> [r \in {"b.stm", "b.ltm"} |-> <<>>],
                 stm_capacity |-> stm_cap, ltm_capacity |-> ltm_cap,
                 state |-> InitialState]
    /\ call' = [NoCall EXCEPT !.op = "__init__", !.on = "b"]
    /\ UNCHANGED <<threads, siblings>>
    /\ ret' = NoReturn
    /\ oldest' = NoItem
    /\ removed' = NoItem
    /\ uniform' = Broken
    /\ UNCHANGED <<stm_capacity, ltm_capacity, short_term_memory,
                   long_term_memory, state, next_id, stm_epoch,
                   reinforcements>>

\* a method of b has left stm and ltm in the lists its fields refer to
OtherWrites(op, stm, ltm, new_state) ==
    LET s == other.short_term_memory
        l == other.long_term_memory
    IN  /\ other' = [other EXCEPT
                       !.heap = [r \in DOMAIN @ |->
                                    IF r = l THEN ltm
                                    ELSE IF r = s THEN stm ELSE @[r]],
                       !.state = new_state]
        /\ short_term_memory' = IF l = "a.stm" THEN ltm
                                ELSE IF s = "a.stm" THEN stm
                                ELSE short_term_memory
        /\ long_term_memory' = IF l = "a.ltm" THEN ltm
                               ELSE IF s = "a.ltm" THEN stm
                               ELSE long_term_memory
        /\ call' = [NoCall EXCEPT !.op = op, !.on = "b"]
        /\ uniform' = Broken
        /\ UNCHANGED <<stm_capacity, ltm_capacity, state, stm_epoch, threads,
                       siblings>>

\* b.store(content, importance, tags)
OtherStore(content, importance, tags) ==
    /\ other.made /\ Returned
    /\ next_id <= MaxItems
    /\ LET item == MemoryItem(next_id, content, importance, tags)
           r == StoreStm(OtherStm, OtherLtm, item,
                         other.stm_capacity, other.ltm_capacity)
       IN  /\ OtherWrites("store", r.stm, r.ltm, other.state)
           /\ oldest' = r.oldest
           /\ removed' = r.removed
    /\ next_id' = next_id + 1
    /\ ret' = NoReturn
    /\ UNCHANGED reinforcements

\* b.process(input_data)
OtherProcess(input_data) ==
    /\ other.made /\ Returned
    /\ next_id <= MaxItems
    /\ CanSearch({item \in Range(OtherStm) \cup Range(OtherLtm) :
                     SimilarMatch(input_data, item)})
    /\ LET item == MemoryItem(next_id, input_data, DefaultImportance, NoTags)
           r == StoreStm(OtherStm, OtherLtm, item,
                         other.stm_capacity, other.ltm_capacity)
           f == FindSimilar(r.stm, r.ltm, input_data, DefaultLimit)
       IN  /\ OtherWrites("process", f.stm, f.ltm, "IDLE")
           /\ oldest' = r.oldest
           /\ removed' = r.removed
           /\ ret' = [kind |-> "thought", results |-> f.similar,
                      stored |-> input_data,
                      confidence |-> ProcessConfidenceTenths]
    /\ next_id' = next_id + 1
    /\ UNCHANGED reinforcements

\* b.retrieve(query, memory_type)
OtherRetrieve(query, memory_type) ==
    /\ other.made /\ Returned
    /\ CanSearch({item \in Range(OtherStm) \cup Range(OtherLtm) :
                     SearchMatch(query, item)})
    /\ LET in_stm == memory_type \in {"all", "short_term"}
           in_ltm == memory_type \in {"all", "long_term"}
           s == SearchMemory(OtherStm, query)
           l == SearchMemory(OtherLtm, query)
       IN  /\ OtherWrites("retrieve",
                          IF in_stm THEN s.list ELSE OtherStm,
                          IF in_ltm THEN l.list ELSE OtherLtm, other.state)
           /\ ret' = [NoReturn EXCEPT
                        !.kind = "list",
                        !.results = (IF in_stm THEN s.results ELSE <<>>)
                                    \o (IF in_ltm THEN l.results ELSE <<>>)]
    /\ oldest' = NoItem
    /\ removed' = NoItem
    /\ UNCHANGED <<next_id, reinforcements>>

\* b.update(feedback)
OtherUpdate(feedback) ==
    /\ other.made /\ Returned
    /\ "reinforce" \in feedback => reinforcements < MaxReinforce
    /\ reinforcements' = IF "reinforce" \in feedback
                         THEN reinforcements + 1 ELSE reinforcements
    /\ OtherWrites("update",
                   IF "reinforce" \in feedback
                   THEN ReinforceRecent(OtherStm) ELSE OtherStm,
                   OtherLtm, other.state)
    /\ ret' = NoReturn
    /\ oldest' = NoItem
    /\ removed' = NoItem
    /\ UNCHANGED next_id

\* b.clear_stm()
OtherClearStm ==
    /\ other.made /\ Returned
    /\ OtherWrites("clear_stm", <<>>, OtherLtm, other.state)
    /\ ret' = NoReturn
    /\ oldest' = NoItem
    /\ removed' = NoItem
    /\ UNCHANGED <<next_id, reinforcements>>

\* b.clear_ltm()
OtherClearLtm ==
    /\ other.made /\ Returned
    /\ OtherWrites("clear_ltm", OtherStm, <<>>, other.state)
    /\ ret' = NoReturn
    /\ oldest' = NoItem
    /\ removed' = NoItem
    /\ UNCHANGED <<next_id, reinforcements>>

\* a call on a, recorded by its name
RecordedOnA(op) ==
    /\ Returned
    /\ call' = [NoCall EXCEPT !.op = op, !.on = "a"]
    /\ UNCHANGED <<other, threads, siblings>>

TwoCapacities == 0..TwoCapacity
TwoQueries == {StrContent(CatUpper)}
TwoStoreInputs ==
    {[content |-> StrContent(Cat), importance |-> Importance(8), tags |-> NoTags]}
\* the item bound of the two objects together
TwoCanConstruct == next_id <= TwoItems

InitTwo ==
    /\ stm_capacity \in TwoCapacities
    /\ ltm_capacity \in TwoCapacities
    /\ short_term_memory = <<>>
    /\ long_term_memory = <<>>
    /\ state = InitialState
    /\ next_id = 1
    /\ ret = NoReturn
    /\ oldest = NoItem
    /\ removed = NoItem
    /\ stm_epoch = 1
    /\ reinforcements = 0
    /\ uniform = [importance |-> 0, count |-> 0]
    /\ call = NoCall
    /\ other = NoInstance
    /\ threads = NoThreads
    /\ siblings = NoSiblings

NextTwo ==
    \/ \E s, l \in TwoCapacities : ConstructOther(s, l)
    \/ \E x \in TwoStoreInputs :
          /\ TwoCanConstruct
          /\ Store(x.content, x.importance, x.tags)
          /\ RecordedOnA("store")
    \/ \E x \in ProcessInputs :
          TwoCanConstruct /\ Process(x) /\ RecordedOnA("process")
    \/ \E q \in TwoQueries : Retrieve(q, "all") /\ RecordedOnA("retrieve")
    \/ Update({"reinforce"}) /\ RecordedOnA("update")
    \/ ClearStm /\ RecordedOnA("clear_stm")
    \/ ClearLtm /\ RecordedOnA("clear_ltm")
    \/ \E x \in TwoStoreInputs :
          TwoCanConstruct /\ OtherStore(x.content, x.importance, x.tags)
    \/ \E x \in ProcessInputs : TwoCanConstruct /\ OtherProcess(x)
    \/ \E q \in TwoQueries : OtherRetrieve(q, "all")
    \/ OtherUpdate({"reinforce"})
    \/ OtherClearStm
    \/ OtherClearLtm

SpecTwo == InitTwo /\ [][NextTwo]_vars

(***************************************************************************)
(* Two threads, each making one retrieve call on the one object.  The      *)
(* statement self.access_count += 1 of MemoryItem.access is a read of the  *)
(* attribute followed by a write of the sum; the interpreter may switch    *)
(* threads between the two.  In mode "interleaved" the threads run without *)
(* any lock and their statements interleave; in mode "serial" a call       *)
(* starts only when no other call is in progress.  The items are stored    *)
(* before the first thread starts.                                         *)
(***************************************************************************)
Threads == {1, 2}
Modes == {"serial", "interleaved"}
RaceQueries == {StrContent(CatUpper), StrContent(CatsAreGreat)}

IdleFrame == [pc |-> "idle", query |-> NoContent, where |-> "stm", i |-> 1,
              tmp |-> 0, results |-> <<>>]

InitRace ==
    /\ stm_capacity \in 0..MaxStmCapacity
    /\ ltm_capacity \in 0..MaxLtmCapacity
    /\ short_term_memory = <<>>
    /\ long_term_memory = <<>>
    /\ state = InitialState
    /\ next_id = 1
    /\ ret = NoReturn
    /\ oldest = NoItem
    /\ removed = NoItem
    /\ stm_epoch = 1
    /\ reinforcements = 0
    /\ uniform = [importance |-> 0, count |-> 0]
    /\ call = NoCall
    /\ other = NoInstance
    /\ \E mode \in Modes :
          threads = [mode |-> mode, frames |-> [t \in Threads |-> IdleFrame]]
    /\ siblings = NoSiblings

\* the frame of thread t, and the list its loop is in
Frame(t) == threads.frames[t]
ScannedList(t) ==
    IF Frame(t).where = "stm" THEN short_term_memory ELSE long_term_memory

\* the thread steps leave everything but the two lists and the frames alone
RaceFrame ==
    UNCHANGED <<stm_capacity, ltm_capacity, state, next_id, ret, oldest,
                removed, stm_epoch, reinforcements, uniform, call, other,
                siblings>>

\* store, before any thread has started
RaceStore(content, importance, tags) ==
    /\ \A t \in Threads : Frame(t).pc = "idle"
    /\ next_id <= RaceItems
    /\ Store(content, importance, tags)
    /\ Unrecorded

\* thread t calls retrieve(query, "all")
RetrieveStart(t, query) ==
    /\ Frame(t).pc = "idle"
    /\ threads.mode = "serial" =>
          \A u \in Threads : Frame(u).pc \in {"idle", "done"}
    /\ threads' = [threads EXCEPT
                     !.frames[t] = [IdleFrame EXCEPT !.pc = "test",
                                                     !.query = query]]
    /\ UNCHANGED <<short_term_memory, long_term_memory>>
    /\ RaceFrame

\* _search_memory, lines 149-151: the next item of the loop is tested and,
\* on a match, its content appended; at the end of STM the loop of LTM
\* starts, at the end of LTM retrieve returns
RetrieveTest(t) ==
    /\ Frame(t).pc = "test"
    /\ LET f == Frame(t)
           list == ScannedList(t)
       IN  threads' = [threads EXCEPT !.frames[t] =
              IF f.i > Len(list)
              THEN IF f.where = "stm"
                   THEN [f EXCEPT !.where = "ltm", !.i = 1]
                   ELSE [f EXCEPT !.pc = "done"]
              ELSE IF SearchMatch(f.query, list[f.i])
                   THEN [f EXCEPT !.pc = "read",
                                  !.results = Append(@, list[f.i].content)]
                   ELSE [f EXCEPT !.i = @ + 1]]
    /\ UNCHANGED <<short_term_memory, long_term_memory>>
    /\ RaceFrame

\* MemoryItem.access, line 24: self.access_count is read
RetrieveRead(t) ==
    /\ Frame(t).pc = "read"
    /\ threads' = [threads EXCEPT
                     !.frames[t].tmp = ScannedList(t)[Frame(t).i].access_count,
                     !.frames[t].pc = "write"]
    /\ UNCHANGED <<short_term_memory, long_term_memory>>
    /\ RaceFrame

\* mutant: the value read plus 1 added to the attribute, not assigned to it
RetrieveWriteBoth(t) ==
    /\ Frame(t).pc = "write"
    /\ LET f == Frame(t)
           written(list) ==
              [list EXCEPT ![f.i].access_count = @ + f.tmp + 1]
       IN  /\ short_term_memory' = IF f.where = "stm"
                                   THEN written(short_term_memory)
                                   ELSE short_term_memory
           /\ long_term_memory' = IF f.where = "ltm"
                                  THEN written(long_term_memory)
                                  ELSE long_term_memory
           /\ threads' = [threads EXCEPT !.frames[t].pc = "test",
                                         !.frames[t].i = f.i + 1]
    /\ RaceFrame

\* MemoryItem.access, line 24: the value read plus 1 is written
RetrieveWrite(t) ==
    /\ Frame(t).pc = "write"
    /\ LET f == Frame(t)
           written(list) == [list EXCEPT ![f.i].access_count = f.tmp + 1]
       IN  /\ short_term_memory' = IF f.where = "stm"
                                   THEN written(short_term_memory)
                                   ELSE short_term_memory
           /\ long_term_memory' = IF f.where = "ltm"
                                  THEN written(long_term_memory)
                                  ELSE long_term_memory
           /\ threads' = [threads EXCEPT !.frames[t].pc = "test",
                                         !.frames[t].i = f.i + 1]
    /\ RaceFrame

NextRace ==
    \/ \E x \in StoreInputs : RaceStore(x.content, x.importance, x.tags)
    \/ \E t \in Threads, q \in RaceQueries : RetrieveStart(t, q)
    \/ \E t \in Threads : RetrieveTest(t)
    \/ \E t \in Threads : RetrieveRead(t)
    \/ \E t \in Threads : RetrieveWrite(t)

SpecRace == InitRace /\ [][NextRace]_vars

(***************************************************************************)
(* The scoped workload: store, process and retrieve, a retrieve call with  *)
(* its query and its memory_type on record.                                *)
(***************************************************************************)
\* a retrieve call, recorded
RecordedRetrieve(query, memory_type) ==
    /\ Returned
    /\ call' = [NoCall EXCEPT !.op = "retrieve", !.arg = query,
                              !.memory_type = memory_type]
    /\ UNCHANGED <<other, threads, siblings>>

\* a call other than retrieve: nothing of it is kept
NotRetrieve ==
    /\ Returned
    /\ call' = NoCall
    /\ UNCHANGED <<other, threads, siblings>>

NextScoped ==
    \/ \E x \in StoreInputs :
          Store(x.content, x.importance, x.tags) /\ NotRetrieve
    \/ \E x \in ProcessInputs : Process(x) /\ NotRetrieve
    \/ \E q \in Queries, t \in MemoryTypes :
          Retrieve(q, t) /\ RecordedRetrieve(q, t)

SpecScoped == Init /\ [][NextScoped]_vars

(***************************************************************************)
(* The workload without reinforcement: process, retrieve, the two clears   *)
(* and update with feedback that has no "reinforce" key; store is not      *)
(* called, so every item has the importance 0.5 process gives it.          *)
(***************************************************************************)
UnreinforcedInputs == {IntContent(12), StrContent(Cat)}
UnreinforcedFeedbacks == {f \in Feedbacks : "reinforce" \notin f}

NextUnreinforced ==
    \/ \E x \in UnreinforcedInputs : Process(x) /\ Unrecorded
    \/ \E q \in Queries, t \in MemoryTypes : Retrieve(q, t) /\ Unrecorded
    \/ \E f \in UnreinforcedFeedbacks : Update(f) /\ Unrecorded
    \/ ClearStm /\ Unrecorded
    \/ ClearLtm /\ Unrecorded

SpecUnreinforced == Init /\ [][NextUnreinforced]_vars

(***************************************************************************)
(* The workload that fills the limit of _find_similar: store and process   *)
(* on an STM that holds more than five items.  The calls are those of      *)
(* Store and Process, bounded by the number of items alone, so that an     *)
(* item is accessed as often as the calls match it.                        *)
(***************************************************************************)
ScanStoreInputs ==
    { [content |-> StrContent(Cat), importance |-> DefaultImportance,
       tags |-> NoTags],
      [content |-> StrContent(Dog), importance |-> Importance(8),
       tags |-> NoTags] }
ScanProcessInputs == {StrContent(CatsAreGreat), StrContent(Dog)}

InitScan ==
    /\ stm_capacity \in 0..ScanCapacity
    /\ ltm_capacity = MaxLtmCapacity
    /\ short_term_memory = <<>>
    /\ long_term_memory = <<>>
    /\ state = InitialState
    /\ next_id = 1
    /\ ret = NoReturn
    /\ oldest = NoItem
    /\ removed = NoItem
    /\ stm_epoch = 1
    /\ reinforcements = 0
    /\ uniform = [importance |-> 0, count |-> 0]
    /\ call = NoCall
    /\ other = NoInstance
    /\ threads = NoThreads
    /\ siblings = NoSiblings

\* MemorySystem.store
ScanStore(content, importance, tags) ==
    /\ next_id <= ScanItems
    /\ LET item == MemoryItem(next_id, content, importance, tags)
           r == StoreStm(short_term_memory, long_term_memory, item,
                         stm_capacity, ltm_capacity)
       IN  /\ short_term_memory' = r.stm
           /\ long_term_memory' = r.ltm
           /\ oldest' = r.oldest
           /\ removed' = r.removed
    /\ next_id' = next_id + 1
    /\ ret' = NoReturn
    /\ uniform' = Broken
    /\ UNCHANGED <<stm_capacity, ltm_capacity, state, stm_epoch, reinforcements>>

\* mutant: process searching before it stores
ScanProcessSearchesFirst(input_data) ==
    /\ next_id <= ScanItems
    /\ LET item == MemoryItem(next_id, input_data, DefaultImportance, NoTags)
           f == FindSimilar(short_term_memory, long_term_memory, input_data,
                            DefaultLimit)
           r == StoreStm(f.stm, f.ltm, item, stm_capacity, ltm_capacity)
       IN  /\ short_term_memory' = r.stm
           /\ long_term_memory' = r.ltm
           /\ oldest' = r.oldest
           /\ removed' = r.removed
           /\ ret' = [kind |-> "thought", results |-> f.similar,
                      stored |-> input_data,
                      confidence |-> ProcessConfidenceTenths]
    /\ state' = "IDLE"
    /\ next_id' = next_id + 1
    /\ uniform' = Broken
    /\ UNCHANGED <<stm_capacity, ltm_capacity, stm_epoch, reinforcements>>

\* MemorySystem.process
ScanProcess(input_data) ==
    /\ next_id <= ScanItems
    /\ LET item == MemoryItem(next_id, input_data, DefaultImportance, NoTags)
           r == StoreStm(short_term_memory, long_term_memory, item,
                         stm_capacity, ltm_capacity)
           f == FindSimilar(r.stm, r.ltm, input_data, DefaultLimit)
       IN  /\ short_term_memory' = f.stm
           /\ long_term_memory' = f.ltm
           /\ oldest' = r.oldest
           /\ removed' = r.removed
           /\ ret' = [kind |-> "thought", results |-> f.similar,
                      stored |-> input_data,
                      confidence |-> ProcessConfidenceTenths]
    /\ state' = "IDLE"
    /\ next_id' = next_id + 1
    /\ uniform' = Broken
    /\ UNCHANGED <<stm_capacity, ltm_capacity, stm_epoch, reinforcements>>

NextScan ==
    \/ \E x \in ScanStoreInputs :
          ScanStore(x.content, x.importance, x.tags) /\ Unrecorded
    \/ \E x \in ScanProcessInputs : ScanProcess(x) /\ Unrecorded

SpecScan == InitScan /\ [][NextScan]_vars

(***************************************************************************)
(* The sibling modules: the configuration setters of ReasoningEngine,      *)
(* LearningEngine and AgentCoordinator, the agent table, and the task      *)
(* branch of AgentCoordinator.process.  A dict is a sequence of its values *)
(* in insertion order, each value carrying its key as id.  An agent id is  *)
(* a string; a task id is a pair, <<"task_", n>> for the string           *)
(* f"task_{n}", which a caller may pass as well.                           *)
(***************************************************************************)
ReasoningStrategies == {"deductive", "inductive", "abductive"}
LearningModes == {"supervised", "unsupervised", "reinforcement"}
CoordinationStrategies == {"round_robin", "capability_match"}

\* the strings the setters are called with
StrategyInputs == {"inductive", "capability_match"}
ModeInputs == {"reinforcement", "deductive"}
CoordinationInputs == {"round_robin", "capability_match", "inductive"}
\* the agents unregister_agent and set_agent_active are called with
UnregisterInputs == {"agent_1"}
ActiveInputs == {"agent_2"}

\* register_agent(agent_id, role, capabilities)
AgentInputs ==
    { [id |-> "agent_1", role |-> "worker", capabilities |-> <<"analysis">>],
      [id |-> "agent_2", role |-> "worker", capabilities |-> <<>>],
      [id |-> "agent_3", role |-> "specialist", capabilities |-> <<>>] }

\* the task dicts process is called with: an "id" key or none, and the
\* requirements
NoId == <<"", 0>>
TaskInputs ==
    { [id |-> NoId, requirements |-> <<"analysis">>],
      [id |-> <<"task_", 1>>, requirements |-> <<>>] }

\* None as the agent a task is assigned to
NoAgent == "None"
\* None as the result of a task
NoResult == "None"

\* update(feedback): the keys of the dict and the values under "agent_id"
\* and "performance", the performance in tenths
CoordinatorFeedbacks ==
    { [keys |-> {"agent_id", "performance"}, agent_id |-> "agent_2",
       performance |-> 5],
      [keys |-> {"agent_id"}, agent_id |-> "agent_2", performance |-> 0] }

\* complete_task(task_id, result)
CompleteInputs == {[task_id |-> <<"task_", 0>>, result |-> "done"]}

\* key in dict, dict[key] = value, del dict[key]
HasKey(dict, key) == \E i \in 1..Len(dict) : dict[i].id = key
Put(dict, value) ==
    IF HasKey(dict, value.id)
    THEN [i \in 1..Len(dict) |->
             IF dict[i].id = value.id THEN value ELSE dict[i]]
    ELSE Append(dict, value)
Del(dict, key) == SelectSeq(dict, LAMBDA v : v.id # key)

\* the three modules after construction, with the history of the calls: the
\* call made last, its argument, the error it raised, what process
\* returned, the agents assigned by the task requests made since the
\* agents or the strategy last changed, and whether the ids of all task
\* requests so far were distinct
InitialSiblings ==
    [made |-> TRUE,
     reasoning_strategy |-> "deductive",
     learning_mode |-> "supervised",
     coordination_strategy |-> "round_robin",
     agents |-> <<>>,
     tasks |-> <<>>,
     op |-> "", arg |-> "", raised |-> "",
     result |-> [task_id |-> NoId, assigned_to |-> NoAgent, status |-> "",
                 confidence |-> 0],
     streak |-> <<>>, distinct |-> TRUE, requests |-> 0]

InitSiblings ==
    /\ stm_capacity = DefaultStmCapacity
    /\ ltm_capacity = DefaultLtmCapacity
    /\ short_term_memory = <<>>
    /\ long_term_memory = <<>>
    /\ state = InitialState
    /\ next_id = 1
    /\ ret = NoReturn
    /\ oldest = NoItem
    /\ removed = NoItem
    /\ stm_epoch = 1
    /\ reinforcements = 0
    /\ uniform = [importance |-> 0, count |-> 0]
    /\ call = NoCall
    /\ other = NoInstance
    /\ threads = NoThreads
    /\ siblings = InitialSiblings

\* a call on a sibling module leaves the MemorySystem alone
SiblingFrame ==
    UNCHANGED <<stm_capacity, ltm_capacity, short_term_memory,
                long_term_memory, state, next_id, ret, oldest, removed,
                stm_epoch, reinforcements, uniform, call, other, threads>>

\* the call on record, with no error
Called(record, op, arg) ==
    [record EXCEPT !.op = op, !.arg = arg, !.raised = ""]
\* the call on record, with the ValueError it raised
Raised(record, op, arg) ==
    [record EXCEPT !.op = op, !.arg = arg, !.raised = "ValueError"]

\* mutant: the strategy assigned before it is validated
SetStrategyAssignsFirst(strategy) ==
    /\ siblings' =
          IF strategy \in ReasoningStrategies
          THEN Called([siblings EXCEPT !.reasoning_strategy = strategy],
                      "set_strategy", strategy)
          ELSE Raised([siblings EXCEPT !.reasoning_strategy = strategy],
                      "set_strategy", strategy)
    /\ SiblingFrame

\* ReasoningEngine.set_strategy
SetStrategy(strategy) ==
    /\ siblings' =
          IF strategy \in ReasoningStrategies
          THEN Called([siblings EXCEPT !.reasoning_strategy = strategy],
                      "set_strategy", strategy)
          ELSE Raised(siblings, "set_strategy", strategy)
    /\ SiblingFrame

\* LearningEngine.set_learning_mode
SetLearningMode(mode) ==
    /\ siblings' =
          IF mode \in LearningModes
          THEN Called([siblings EXCEPT !.learning_mode = mode],
                      "set_learning_mode", mode)
          ELSE Raised(siblings, "set_learning_mode", mode)
    /\ SiblingFrame

\* AgentCoordinator.set_coordination_strategy
SetCoordinationStrategy(strategy) ==
    /\ siblings' =
          IF strategy \in CoordinationStrategies
          THEN Called([siblings EXCEPT
                         !.coordination_strategy = strategy,
                         !.streak = IF strategy = siblings.coordination_strategy
                                    THEN @ ELSE <<>>],
                      "set_coordination_strategy", strategy)
          ELSE Raised(siblings, "set_coordination_strategy", strategy)
    /\ SiblingFrame

\* Agent(id, role, capabilities): active True, performance 1.0
Agent(id, role, capabilities) ==
    [id |-> id, role |-> role, capabilities |-> capabilities,
     active |-> TRUE, performance |-> 10]

\* AgentCoordinator.register_agent
RegisterAgent(agent_id, role, capabilities) ==
    /\ siblings' =
          IF HasKey(siblings.agents, agent_id)
          THEN Raised(siblings, "register_agent", agent_id)
          ELSE Called([siblings EXCEPT
                         !.agents = Put(@, Agent(agent_id, role, capabilities)),
                         !.streak = <<>>],
                      "register_agent", agent_id)
    /\ SiblingFrame

\* AgentCoordinator.unregister_agent
UnregisterAgent(agent_id) ==
    /\ siblings' =
          Called([siblings EXCEPT
                    !.agents = Del(@, agent_id),
                    !.streak = IF HasKey(siblings.agents, agent_id)
                               THEN <<>> ELSE @],
                 "unregister_agent", agent_id)
    /\ SiblingFrame

\* AgentCoordinator.set_agent_active
SetAgentActive(agent_id, active) ==
    /\ siblings' =
          Called([siblings EXCEPT
                    !.agents = [i \in 1..Len(@) |->
                                   IF @[i].id = agent_id
                                   THEN [@[i] EXCEPT !.active = active]
                                   ELSE @[i]],
                    !.streak = IF \E i \in 1..Len(siblings.agents) :
                                     /\ siblings.agents[i].id = agent_id
                                     /\ siblings.agents[i].active # active
                               THEN <<>> ELSE @],
                 "set_agent_active", agent_id)
    /\ SiblingFrame

\* get_active_agents; the list comprehension of _assign_task
ActiveAgents(agents) == SelectSeq(agents, LAMBDA a : a.active)

\* the match score of capability_match: the requirements the agent has
MatchScore(agent, requirements) ==
    Cardinality({i \in 1..Len(requirements) :
                    requirements[i] \in Range(agent.capabilities)})

\* the loop of capability_match from agent i on: the best agent so far
RECURSIVE BestAgentFrom(_, _, _, _, _)
BestAgentFrom(agents, i, requirements, best_agent, best_score) ==
    IF i > Len(agents) THEN best_agent
    ELSE IF agents[i].active
            /\ MatchScore(agents[i], requirements) > best_score
    THEN BestAgentFrom(agents, i + 1, requirements, agents[i].id,
                       MatchScore(agents[i], requirements))
    ELSE BestAgentFrom(agents, i + 1, requirements, best_agent, best_score)

\* mutant: the round-robin index taken from the number of agents
AssignTaskByAgentCount(agents, tasks, strategy, requirements) ==
    IF agents = <<>> THEN NoAgent
    ELSE IF strategy = "round_robin"
    THEN LET active_agents == ActiveAgents(agents)
         IN  IF active_agents # <<>>
             THEN active_agents[(Len(agents) % Len(active_agents)) + 1].id
             ELSE NoAgent
    ELSE IF strategy = "capability_match"
    THEN BestAgentFrom(agents, 1, requirements, NoAgent, 0)
    ELSE NoAgent

\* AgentCoordinator._assign_task: the id of the agent, or None
AssignTask(agents, tasks, strategy, requirements) ==
    IF agents = <<>> THEN NoAgent
    ELSE IF strategy = "round_robin"
    THEN LET active_agents == ActiveAgents(agents)
         IN  IF active_agents # <<>>
             THEN active_agents[(Len(tasks) % Len(active_agents)) + 1].id
             ELSE NoAgent
    ELSE IF strategy = "capability_match"
    THEN BestAgentFrom(agents, 1, requirements, NoAgent, 0)
    ELSE NoAgent

\* _calculate_coordination_confidence, in tenths
CoordinationConfidence(agents) ==
    IF agents = <<>> THEN 3
    ELSE IF 5 + Len(ActiveAgents(agents)) < 9
    THEN 5 + Len(ActiveAgents(agents)) ELSE 9

\* AgentCoordinator.update
UpdateCoordinator(feedback) ==
    /\ siblings' =
          Called([siblings EXCEPT
                    !.agents =
                       IF {"agent_id", "performance"} \subseteq feedback.keys
                       THEN [i \in 1..Len(@) |->
                                IF @[i].id = feedback.agent_id
                                THEN [@[i] EXCEPT
                                        !.performance = feedback.performance]
                                ELSE @[i]]
                       ELSE @],
                 "update", feedback.agent_id)
    /\ SiblingFrame

\* AgentCoordinator.complete_task
CompleteTask(task_id, result) ==
    /\ siblings' =
          Called([siblings EXCEPT
                    !.tasks = [i \in 1..Len(@) |->
                                  IF @[i].id = task_id
                                  THEN [@[i] EXCEPT !.completed = TRUE,
                                                    !.result = result]
                                  ELSE @[i]]],
                 "complete_task", "task")
    /\ SiblingFrame

\* Task(id, description, requirements): not assigned, not completed, no
\* result
Task(id, requirements) ==
    [id |-> id, requirements |-> requirements, assigned_to |-> NoAgent,
     completed |-> FALSE, result |-> NoResult]

\* AgentCoordinator.process on a dict with a "task" key: _handle_task
ProcessTask(task_data) ==
    /\ siblings.requests < MaxRequests
    /\ LET id == IF task_data.id = NoId
                 THEN <<"task_", Len(siblings.tasks)>> ELSE task_data.id
           assigned_agent == AssignTask(siblings.agents, siblings.tasks,
                                        siblings.coordination_strategy,
                                        task_data.requirements)
           task == [Task(id, task_data.requirements) EXCEPT
                      !.assigned_to = assigned_agent]
       IN  siblings' =
              Called([siblings EXCEPT
                        !.tasks = Put(@, task),
                        !.result = [task_id |-> id,
                                    assigned_to |-> assigned_agent,
                                    status |-> "assigned",
                                    confidence |->
                                       CoordinationConfidence(siblings.agents)],
                        !.streak = Append(@, assigned_agent),
                        !.distinct = @ /\ ~HasKey(siblings.tasks, id),
                        !.requests = @ + 1],
                     "process", "task")
    /\ SiblingFrame

\* the configuration calls on the three modules
NextSiblings ==
    \/ \E x \in StrategyInputs : SetStrategy(x)
    \/ \E x \in ModeInputs : SetLearningMode(x)
    \/ \E x \in CoordinationInputs : SetCoordinationStrategy(x)
    \/ \E x \in AgentInputs : RegisterAgent(x.id, x.role, x.capabilities)
    \/ \E x \in UnregisterInputs : UnregisterAgent(x)
    \/ \E x \in ActiveInputs, active \in BOOLEAN : SetAgentActive(x, active)
    \/ \E f \in CoordinatorFeedbacks : UpdateCoordinator(f)

SpecSiblings == InitSiblings /\ [][NextSiblings]_vars

\* the calls on the AgentCoordinator, task requests among them
NextTasks ==
    \/ \E x \in CoordinationInputs : SetCoordinationStrategy(x)
    \/ \E x \in AgentInputs : RegisterAgent(x.id, x.role, x.capabilities)
    \/ \E x \in UnregisterInputs : UnregisterAgent(x)
    \/ \E x \in ActiveInputs, active \in BOOLEAN : SetAgentActive(x, active)
    \/ \E x \in TaskInputs : ProcessTask(x)
    \/ \E f \in CoordinatorFeedbacks : UpdateCoordinator(f)
    \/ \E x \in CompleteInputs : CompleteTask(x.task_id, x.result)

SpecTasks == InitSiblings /\ [][NextTasks]_vars

(***************************************************************************)
(* Properties.  Items are told apart by id.  STM pops its head, so items   *)
(* enter LTM in the order they were constructed: of two items that are or  *)
(* were in LTM, the one with the smaller id was inserted first.            *)
(***************************************************************************)
Holds(list, id) == \E i \in 1..Len(list) : list[i].id = id
InLtm(id) == Holds(long_term_memory, id)
InStm(id) == Holds(short_term_memory, id)

\* C1: after every call, len(short_term_memory) <= stm_capacity.
StmWithinCapacity == Len(short_term_memory) <= stm_capacity

\* a call has popped the head of a full STM
StmOverflowed ==
    /\ oldest # NoItem
    /\ stm_capacity >= 1
    /\ Len(short_term_memory) = stm_capacity

\* C2: after every call, len(long_term_memory) <= ltm_capacity.
LtmWithinCapacity == Len(long_term_memory) <= ltm_capacity

\* a call has inserted into a full LTM and popped an item off it
LtmOverflowed ==
    /\ removed # NoItem
    /\ ltm_capacity >= 1
    /\ Len(long_term_memory) = ltm_capacity

\* C3 as stated: an item popped off STM is in LTM when the call returns iff
\* its importance is above 0.5, also when LTM was at capacity (taken here
\* for an LTM that can hold an item at all).
PromotionLawAsStated ==
    (oldest # NoItem /\ ltm_capacity >= 1) =>
        (InLtm(oldest.id) <=> oldest.importance > PromotionThreshold)

\* the item popped off STM is not the one the insert into LTM pops again:
\* LTM had room, or a resident item scores no more than it
SurvivesInsert(ltm, item, capacity) ==
    \/ Len(ltm) < capacity
    \/ \E i \in 1..Len(ltm) : Score(ltm[i]) <= Score(item)

\* C3, amended: an item popped off STM is in LTM when the call returns iff
\* its importance is above 0.5 and LTM had room for it or held an item
\* whose score importance * access_count was not above its own.
PromotionLaw ==
    [][oldest' # NoItem =>
         (Holds(long_term_memory', oldest'.id) <=>
             /\ oldest'.importance > PromotionThreshold
             /\ SurvivesInsert(long_term_memory, oldest', ltm_capacity))]_vars

\* an item was promoted into a full LTM and stayed, another one was popped
PromotedIntoFullLtm ==
    /\ oldest # NoItem
    /\ InLtm(oldest.id)
    /\ removed # NoItem
    /\ removed.id # oldest.id

\* the items an insert into LTM sorts: the residents and the new item
Pool(ltm, item) == Range(ltm) \cup {item}
MinScore(pool) == CHOOSE m \in {Score(x) : x \in pool} :
                     \A x \in pool : m <= Score(x)

\* C4 as stated: when an insert into LTM breaches the capacity, the item
\* removed is, among the items of minimal score, the one inserted earliest.
EvictsEarliestInserted ==
    [][removed' # NoItem =>
         LET pool == Pool(long_term_memory, oldest')
             tied == {x \in pool : Score(x) = MinScore(pool)}
         IN  \A x \in tied : removed'.id <= x.id]_vars

\* C5: an insert into LTM that breaches the capacity removes exactly one
\* item, whose score is at most that of every item that stays; an insert
\* that does not breach it removes nothing.
EvictsOneMinimum ==
    [][(oldest' # NoItem /\ Promoted(oldest')) =>
         LET pool == Pool(long_term_memory, oldest')
             after == {long_term_memory'[i].id :
                          i \in 1..Len(long_term_memory')}
             ids == {x.id : x \in pool}
         IN  IF Len(long_term_memory) + 1 > ltm_capacity
             THEN /\ removed' \in pool
                  /\ after = ids \ {removed'.id}
                  /\ Len(long_term_memory') = Len(long_term_memory)
                  /\ \A x \in pool : Score(removed') <= Score(x)
             ELSE /\ removed' = NoItem
                  /\ Ids(long_term_memory') =
                        Append(Ids(long_term_memory), oldest'.id)]_vars

\* an insert removed a resident item that had been accessed
EvictedAccessedResident ==
    /\ removed # NoItem
    /\ removed.id # oldest.id
    /\ removed.access_count > 0
    /\ Len(long_term_memory) >= 2

(***************************************************************************)
(* Properties of the FIFO workload (SpecFifo), where the item with id k    *)
(* holds the k-th letter.                                                  *)
(***************************************************************************)
Min(a, b) == IF a < b THEN a ELSE b
UniformRun(importance, count) == [importance |-> importance, count |-> count]

\* C6: with n store/process calls since STM was last cleared, STM holds the
\* last min(n, stm_capacity) items stored, oldest first; with stm_capacity 3
\* and A, B, C, D, E stored at 0.3, STM is [C, D, E] and LTM is empty; at
\* 0.8 (and an LTM that can hold two items), STM is [C, D, E] and LTM [A, B].
StmIsFifo ==
    LET n == Min(next_id - stm_epoch, stm_capacity)
        last == [i \in 1..n |-> next_id - n + i - 1]
    IN  /\ Ids(short_term_memory) = last
        /\ get_stm_contents = [i \in 1..n |-> Letter(last[i])]
        /\ (stm_capacity = 3 /\ uniform = UniformRun(Importance(3), 5)) =>
              /\ get_stm_contents = <<Letter(3), Letter(4), Letter(5)>>
              /\ long_term_memory = <<>>
        /\ (stm_capacity = 3 /\ ltm_capacity >= 2
            /\ uniform = UniformRun(Importance(8), 5)) =>
              /\ get_stm_contents = <<Letter(3), Letter(4), Letter(5)>>
              /\ get_ltm_contents = <<Letter(1), Letter(2)>>

\* A, B, C, D, E have been stored at 0.8 with stm_capacity 3
ScenarioBReached ==
    /\ stm_capacity = 3
    /\ ltm_capacity = 2
    /\ uniform = UniformRun(Importance(8), 5)
    /\ Len(long_term_memory) = 2

\* C7: with ltm_capacity 2 and LTM empty at first, three items of equal
\* importance and access_count 0 inserted into LTM in the order 1, 2, 3:
\* the third insert pops item 1 and leaves LTM = [2, 3].
ScenarioC ==
    (/\ ltm_capacity = 2
     /\ uniform.importance > PromotionThreshold
     /\ uniform.count = stm_capacity + 3) =>
        /\ Ids(long_term_memory) = <<2, 3>>
        /\ get_ltm_contents = <<Letter(2), Letter(3)>>
        /\ removed.id = 1
        /\ removed.access_count = 0
        /\ \A i \in 1..2 : /\ long_term_memory[i].access_count = 0
                           /\ long_term_memory[i].importance = removed.importance

\* the third of three equal inserts into an LTM of capacity 2 has happened
ScenarioCReached ==
    /\ ltm_capacity = 2
    /\ uniform.importance > PromotionThreshold
    /\ uniform.count = stm_capacity + 3
    /\ Len(long_term_memory) = 2

(***************************************************************************)
(* Properties of retrieve.                                                 *)
(***************************************************************************)
\* the match of the specification: containment in either direction
MatchesEitherWay(query, item) ==
    \/ Contains[query][item.content]
    \/ Contains[item.content][query]

\* C8 as stated: retrieve returns an item when the lower-cased query is in
\* its lower-cased content or its lower-cased content is in the query.
RetrievalSymmetry ==
    [][\A q \in Queries :
          Retrieve(q, "all") =>
             \A item \in AllItems :
                MatchesEitherWay(q, item) =>
                   item.content \in Range(ret'.results)]_vars

\* C9: one retrieve call adds exactly 1 to the access_count of every item
\* whose content it returns and nothing to any other item, and returns one
\* entry for each item it has counted, in list order.  (A step that leaves
\* ret.kind = "list" is a retrieve call, whatever its query and scope: no
\* other call returns a list.)
AccessTracking ==
    [][ret'.kind = "list" =>
             LET before == short_term_memory \o long_term_memory
                 after == short_term_memory' \o long_term_memory'
                 gain(i) == after[i].access_count - before[i].access_count
                 places == [i \in 1..Len(before) |-> i]
                 counted == SelectSeq(places, LAMBDA i : gain(i) = 1)
             IN  /\ Len(after) = Len(before)
                 /\ \A i \in 1..Len(before) :
                       /\ gain(i) \in {0, 1}
                       /\ after[i] =
                             [before[i] EXCEPT !.access_count = @ + gain(i)]
                 /\ ret'.results =
                       [k \in 1..Len(counted) |-> before[counted[k]].content]]_vars

\* a retrieve has returned some items and left another one uncounted
RetrievedSome ==
    /\ ret.kind = "list"
    /\ Len(ret.results) >= 1
    /\ \E x, y \in AllItems : x.access_count = 1 /\ y.access_count = 0

\* the items of a list that the specification's match selects
Matching(list, query) ==
    Contents(SelectSeq(list, LAMBDA item : MatchesEitherWay(query, item)))

\* C10 as stated: retrieve returns the content of every matching item, the
\* STM matches in STM order and then the LTM matches in LTM order for "all",
\* and the matches of the one list for "short_term" and "long_term".
RetrieveReturnsMatches ==
    [][\A q \in Queries :
          /\ Retrieve(q, "all") =>
                ret'.results = Matching(short_term_memory, q)
                               \o Matching(long_term_memory, q)
          /\ Retrieve(q, "short_term") =>
                ret'.results = Matching(short_term_memory, q)
          /\ Retrieve(q, "long_term") =>
                ret'.results = Matching(long_term_memory, q)]_vars

(***************************************************************************)
(* Properties of _find_similar (SpecSimilar).                              *)
(***************************************************************************)
\* the first n elements of a sequence, or all of it
Prefix(s, n) == SubSeq(s, 1, Min(n, Len(s)))

\* the places of STM + LTM whose item the test of _find_similar selects
SimilarPlaces(all, content) ==
    SelectSeq([i \in 1..Len(all) |-> i],
              LAMBDA i : SimilarMatch(content, all[i]))

\* C11 as stated: for every limit >= 0, _find_similar returns at most limit
\* contents, the first matches of STM and then LTM, and adds 1 to the
\* access_count of exactly the items returned; every other item, a match
\* beyond the limit included, is left as it was.
FindSimilarShortCircuits ==
    [][\A q \in Queries, limit \in Limits :
          FindSimilarCall(q, limit) =>
             LET before == short_term_memory \o long_term_memory
                 after == short_term_memory' \o long_term_memory'
                 taken == Prefix(SimilarPlaces(before, q), limit)
             IN  /\ Len(ret'.results) <= limit
                 /\ ret'.results =
                       [k \in 1..Len(taken) |-> before[taken[k]].content]
                 /\ Len(after) = Len(before)
                 /\ \A i \in 1..Len(before) :
                       after[i] = IF i \in Range(taken)
                                  THEN Access(before[i]) ELSE before[i]]_vars

\* what retrieve(query, "all") returns
RetrieveAll(query) ==
    SearchMemory(short_term_memory, query).results
    \o SearchMemory(long_term_memory, query).results

\* C12 as stated: from one state, _find_similar(query, limit) with
\* limit >= 1 returns the first min(limit, k) elements of what
\* retrieve(query, "all") returns, k being the length of that list.
SameMatchPredicate ==
    \A q \in Queries, limit \in Limits \ {0} :
       FindSimilar(short_term_memory, long_term_memory, q, limit).similar
          = Prefix(RetrieveAll(q), limit)

\* C13 as stated: retrieve with the empty string as query, or with a query
\* that matches no stored item, returns an empty list.
EmptyOrUnmatchedYieldsEmpty ==
    [][\A q \in Queries, t \in MemoryTypes :
          (/\ Retrieve(q, t)
           /\ \/ Str(q) = Empty
              \/ \A item \in AllItems : ~MatchesEitherWay(q, item))
          => ret'.results = <<>>]_vars

(***************************************************************************)
(* Properties of process (SpecProcess).                                    *)
(***************************************************************************)
\* C14: the state is PROCESSING exactly while a process call is executing,
\* and IDLE in every other state: before the first call, during and after
\* every other call, and after a process call has returned or has raised.
ProcessStateMachine ==
    /\ state \in {"IDLE", "PROCESSING"}
    /\ state = "PROCESSING" <=> InProcess
    /\ Returned => state = "IDLE"

\* a process call has failed in its search, after it had stored its item
ProcessFailedPartWay ==
    /\ call.op = "process"
    /\ Returned
    /\ call.raised
    /\ ret.kind = "raised"
    /\ Len(short_term_memory) + Len(long_term_memory)
          > Len(call.stm) + Len(call.ltm)

\* an item without its access_count: what the membership and order of a
\* store are about
Stored(list) ==
    [i \in 1..Len(list) |->
        [id |-> list[i].id, content |-> list[i].content,
         importance |-> list[i].importance, tags |-> list[i].tags]]

(***************************************************************************)
(* Properties of the recorded workload (SpecCalls): call is the call just  *)
(* made, call.stm and call.ltm are the stores before it.                   *)
(***************************************************************************)
\* C15: process(x) leaves the items of STM and of LTM and their order as
\* store(x, importance 0.5, no tags) from the same state would: a new item
\* with content x, importance 0.5 and no tags enters at the STM tail and
\* overflow and promotion are applied; the Thought returned has confidence
\* 0.9 and carries x and the list of similar contents.
ProcessStoresLikeStore ==
    (call.op = "process" /\ Returned) =>
        LET x == call.arg
            item == [id |-> next_id - 1, content |-> x, access_count |-> 0,
                     importance |-> DefaultImportance, tags |-> NoTags]
            r == StoreStm(call.stm, call.ltm, item, stm_capacity, ltm_capacity)
        IN  /\ Stored(short_term_memory) = Stored(r.stm)
            /\ Stored(long_term_memory) = Stored(r.ltm)
            /\ stm_capacity >= 1 =>
                  Stored(short_term_memory)[Len(short_term_memory)]
                     = [id |-> next_id - 1, content |-> x,
                        importance |-> Importance(5), tags |-> <<>>]
            /\ ret.kind = "thought"
            /\ ret.confidence = 9
            /\ ret.stored = x
            /\ ret.results = FindSimilar(r.stm, r.ltm, x, DefaultLimit).similar

\* a process call has pushed an item out of STM into LTM and found two
\* similar contents
ProcessOverflowed ==
    /\ call.op = "process"
    /\ oldest # NoItem
    /\ InLtm(oldest.id)
    /\ Len(ret.results) >= 2

\* the stores, capacities and state of the object: all but the history
Module == <<stm_capacity, ltm_capacity, short_term_memory, long_term_memory,
            state>>

\* C16: update with a "reinforce" key sets importance to
\* min(1.0, importance * 1.2) on the last min(3, len(STM)) items of STM and
\* changes nothing else: the older STM items, LTM, the membership and
\* order of both stores and every access_count stay as they were.
ReinforcesLastThree ==
    [][(call'.op = "update" /\ "reinforce" \in call'.feedback) =>
         LET n == Len(short_term_memory)
             raised(x) == IF x * 12 < One * 10 THEN (x * 12) \div 10 ELSE One
         IN  /\ Len(short_term_memory') = n
             /\ \A i \in 1..n :
                   short_term_memory'[i] =
                      IF i > n - Min(3, n)
                      THEN [short_term_memory[i] EXCEPT
                              !.importance = raised(@)]
                      ELSE short_term_memory[i]
             /\ UNCHANGED <<long_term_memory, stm_capacity, ltm_capacity,
                            state>>]_vars

\* a reinforcing update on an STM of four items has left the first as it
\* was, has capped another at 1.0, and LTM holds an item
ReinforcedWithOlderItem ==
    /\ call.op = "update"
    /\ "reinforce" \in call.feedback
    /\ Len(short_term_memory) = 4
    /\ short_term_memory[1] = call.stm[1]
    /\ \E i \in 2..4 : /\ short_term_memory[i].importance = One
                        /\ call.stm[i].importance < One
    /\ \E i \in 2..4 : /\ short_term_memory[i].importance < One
                        /\ short_term_memory[i].importance
                              > call.stm[i].importance
    /\ Len(long_term_memory) >= 1

\* C17: update with a mapping that has no "reinforce" key changes nothing
\* in STM, LTM, the items or the module state.
UpdateWithoutReinforce ==
    [][(call'.op = "update" /\ "reinforce" \notin call'.feedback) =>
          UNCHANGED Module]_vars

\* an update with an unrecognised key only has been made on stores that
\* hold items
UpdatedWithoutReinforce ==
    /\ call.op = "update"
    /\ call.feedback = {"strength"}
    /\ Len(short_term_memory) >= 1
    /\ Len(long_term_memory) >= 1

\* C18: clear_stm leaves STM empty and LTM, with all else, as it was,
\* whatever the importance of the items it drops; clear_ltm leaves LTM
\* empty and STM as it was; a second consecutive call of either changes
\* nothing.
ClearIsIdempotent ==
    [][/\ call'.op = "clear_stm" =>
            /\ short_term_memory' = <<>>
            /\ UNCHANGED <<long_term_memory, stm_capacity, ltm_capacity,
                           state>>
       /\ call'.op = "clear_ltm" =>
            /\ long_term_memory' = <<>>
            /\ UNCHANGED <<short_term_memory, stm_capacity, ltm_capacity,
                           state>>
       /\ (call'.op \in {"clear_stm", "clear_ltm"}
           /\ call'.prior = call'.op) => UNCHANGED Module]_vars

\* clear_stm has been called twice in a row, next to an LTM that holds an
\* item
ClearedTwice ==
    /\ call.op = "clear_stm"
    /\ call.prior = "clear_stm"
    /\ call.stm = <<>>
    /\ short_term_memory = <<>>
    /\ Len(long_term_memory) >= 1

\* C19: no item is in STM and in LTM at once, and none is twice in STM or
\* twice in LTM.
ExclusiveOwnership ==
    LET all == short_term_memory \o long_term_memory
    IN  \A i, j \in 1..Len(all) : all[i].id = all[j].id => i = j

\* an item has moved from STM to LTM while both stores hold items
MovedToLtm ==
    /\ oldest # NoItem
    /\ InLtm(oldest.id)
    /\ ~InStm(oldest.id)
    /\ Len(short_term_memory) >= 2
    /\ Len(long_term_memory) >= 2

(***************************************************************************)
(* Properties of two objects (SpecTwo).                                    *)
(***************************************************************************)
\* what b is seen to hold: the lists its fields refer to, its capacities
\* and its state
OtherModule ==
    IF other.made
    THEN <<other.stm_capacity, other.ltm_capacity, OtherStm, OtherLtm,
           other.state>>
    ELSE <<>>

\* C20: a call on one of two MemorySystem objects leaves the STM, the LTM,
\* the items and the state of the other object as they were.
InstanceIsolation ==
    [][/\ (call'.on = "a" /\ other.made) => OtherModule' = OtherModule
       /\ call'.on = "b" => UNCHANGED Module]_vars

\* both objects hold items in both of their stores, and the last call, on
\* b, has moved an item of b into its LTM
BothHoldItems ==
    /\ other.made
    /\ call.on = "b"
    /\ oldest # NoItem
    /\ Holds(OtherLtm, oldest.id)
    /\ Len(OtherStm) >= 1
    /\ Len(short_term_memory) >= 1
    /\ Len(long_term_memory) >= 1

(***************************************************************************)
(* Properties of two threads (SpecRace).  Every item has access_count 0    *)
(* when the first thread starts, so an item's access_count is what the     *)
(* two calls have added to it.                                             *)
(***************************************************************************)
BothReturned == \A t \in Threads : Frame(t).pc = "done"

\* the calls whose query matches the item
Matchers(item) == {t \in Threads : SearchMatch(Frame(t).query, item)}

\* C21: when the two retrieve calls have returned, an item both match has
\* an access_count of 1 or 2 without serialization, and always of 2 when
\* the calls ran one after the other; a state with 1 is reachable when the
\* read and the write of access_count += 1 interleave.
SerialCountsEveryAccess ==
    BothReturned =>
       \A item \in AllItems :
          LET n == Cardinality(Matchers(item))
          IN  /\ item.access_count <= n
              /\ n >= 1 => item.access_count >= 1
              /\ threads.mode = "serial" => item.access_count = n

\* an update was lost: both calls have returned the item, and its
\* access_count is 1
LostUpdate ==
    /\ threads.mode = "interleaved"
    /\ BothReturned
    /\ \E item \in AllItems :
          /\ Matchers(item) = Threads
          /\ item.access_count = 1
          /\ \A t \in Threads : item.content \in Range(Frame(t).results)

(***************************************************************************)
(* Properties of the sibling modules (SpecSiblings, SpecTasks).            *)
(***************************************************************************)
\* the configuration of the three modules: strategy, mode, coordination
\* strategy, the agent table and the tasks
Configuration ==
    <<siblings.reasoning_strategy, siblings.learning_mode,
      siblings.coordination_strategy, siblings.agents, siblings.tasks>>

\* the call recorded by the step was made with an invalid argument: an
\* unrecognised string, or the id of an agent registered before the call
InvalidCall ==
    \/ /\ siblings'.op = "set_strategy"
       /\ siblings'.arg \notin ReasoningStrategies
    \/ /\ siblings'.op = "set_learning_mode"
       /\ siblings'.arg \notin LearningModes
    \/ /\ siblings'.op = "set_coordination_strategy"
       /\ siblings'.arg \notin CoordinationStrategies
    \/ /\ siblings'.op = "register_agent"
       /\ HasKey(siblings.agents, siblings'.arg)

\* C22: set_strategy, set_learning_mode and set_coordination_strategy with
\* an unrecognised string, and register_agent with a registered id, raise
\* ValueError and leave strategy, mode and agent table as they were.
InvalidConfigurationRaises ==
    [][/\ InvalidCall => siblings'.raised = "ValueError"
       /\ siblings'.raised = "ValueError" => Configuration' = Configuration
      ]_vars

\* a registration of a registered agent has raised, in a module whose
\* settings are no longer the initial ones and whose agent was deactivated
DuplicateRejected ==
    /\ siblings.made
    /\ siblings.op = "register_agent"
    /\ siblings.raised = "ValueError"
    /\ \E i \in 1..Len(siblings.agents) :
          /\ siblings.agents[i].id = siblings.arg
          /\ ~siblings.agents[i].active
    /\ siblings.reasoning_strategy = "inductive"
    /\ siblings.learning_mode = "reinforcement"
    /\ siblings.coordination_strategy = "capability_match"

\* the ids of the active agents
ActiveIds ==
    IF siblings.made
    THEN {ActiveAgents(siblings.agents)[i].id :
             i \in 1..Len(ActiveAgents(siblings.agents))}
    ELSE {}

\* C23: under round_robin, with k >= 1 active agents that did not change
\* and distinct task ids, every task request returns status "assigned" and
\* is recorded with an active agent, and any k consecutive requests are
\* assigned to k distinct agents.
RoundRobinIsFair ==
    (/\ siblings.made
     /\ siblings.coordination_strategy = "round_robin"
     /\ siblings.distinct
     /\ ActiveIds # {}
     /\ siblings.streak # <<>>) =>
       LET k == Cardinality(ActiveIds)
           streak == siblings.streak
       IN  /\ \A i \in 1..Len(streak) : streak[i] \in ActiveIds
           /\ \A i \in 1..(Len(streak) - k + 1) :
                 Cardinality({streak[j] : j \in i..(i + k - 1)}) = k
           /\ siblings.op = "process" =>
                 /\ siblings.result.status = "assigned"
                 /\ siblings.result.assigned_to = streak[Len(streak)]
                 /\ \E n \in 1..Len(siblings.tasks) :
                       /\ siblings.tasks[n].id = siblings.result.task_id
                       /\ siblings.tasks[n].assigned_to = streak[Len(streak)]

\* four task requests in a row with two of three agents active: the
\* inactive agent, registered between the two, was passed over, and a
\* task was completed between the requests
RoundRobinWrapped ==
    /\ siblings.made
    /\ siblings.coordination_strategy = "round_robin"
    /\ siblings.distinct
    /\ Len(siblings.streak) = MaxRequests
    /\ Len(siblings.agents) = 3
    /\ ~siblings.agents[2].active
    /\ Cardinality(ActiveIds) = 2
    /\ siblings.op = "process"
    /\ \E n \in 1..Len(siblings.tasks) : siblings.tasks[n].completed

(***************************************************************************)
(* Properties of consolidation (Spec).  A step with oldest' other than     *)
(* NoItem is a store or a process call that popped the head of STM; of     *)
(* these the store calls are the ones that return nothing.                 *)
(***************************************************************************)
\* the step is a store call that popped an item off STM
StorePopped == oldest' # NoItem /\ ret' = NoReturn

\* C24 as stated: when LTM is at capacity and every resident has a score
\* above 0, promoting an item with access_count 0 removes that item again
\* and leaves LTM exactly as it was before the call.
UnprovenNotProtected ==
    [][(/\ StorePopped
        /\ Promoted(oldest')
        /\ oldest'.access_count = 0
        /\ Len(long_term_memory) = ltm_capacity
        /\ \A i \in 1..Len(long_term_memory) :
              Score(long_term_memory[i]) > 0) =>
         /\ removed' = oldest'
         /\ long_term_memory' = long_term_memory]_vars

\* C25: the item a store call promotes is in LTM with the fields it had as
\* the head of STM, and no other item has a field changed by the call.
MovedUnmodified ==
    [][StorePopped =>
         /\ IF short_term_memory # <<>>
            THEN oldest' = Head(short_term_memory)
            ELSE oldest'.id = next_id /\ oldest'.access_count = 0
         /\ \A y \in Range(long_term_memory') :
               y.id = oldest'.id => y = oldest'
         /\ \A x \in AllItems :
               \A y \in Range(short_term_memory') \cup Range(long_term_memory') :
                  x.id = y.id => x = y]_vars

\* a store call has moved an item that was accessed, reinforced and tagged
\* into an LTM that holds another item
MovedAccessedItem ==
    /\ oldest # NoItem
    /\ ret = NoReturn
    /\ InLtm(oldest.id)
    /\ oldest.access_count >= 1
    /\ oldest.importance > Importance(8)
    /\ oldest.tags # NoTags
    /\ Len(long_term_memory) >= 2

\* C26: an item that is not in STM is not in STM after any call, and an
\* item that is in neither store is in neither store after any call; the
\* items are those constructed so far, with ids below next_id.
OneWayLifecycle ==
    [][\A id \in 1..(next_id - 1) :
         /\ ~InStm(id) => ~Holds(short_term_memory', id)
         /\ (~InStm(id) /\ ~InLtm(id)) => ~Holds(long_term_memory', id)
      ]_vars

\* items have left for good in each way: one popped off LTM by the last
\* call, which left another one in LTM, and STM was cleared before
DepartedEachWay ==
    /\ removed # NoItem
    /\ oldest # NoItem
    /\ removed.id # oldest.id
    /\ ~InStm(removed.id) /\ ~InLtm(removed.id)
    /\ InLtm(oldest.id)
    /\ stm_epoch > 1
    /\ \E id \in 1..(next_id - 1) :
          /\ id # removed.id
          /\ ~InStm(id) /\ ~InLtm(id)

\* C27 as stated: an insert that evicts changes LTM only by appending the
\* new item and removing the evicted one, the survivors keeping their
\* relative order.
EvictionKeepsOrder ==
    [][removed' # NoItem =>
         Ids(long_term_memory') =
            SelectSeq(Append(Ids(long_term_memory), oldest'.id),
                      LAMBDA id : id # removed'.id)]_vars

(***************************************************************************)
(* Properties of the workload without reinforcement (SpecUnreinforced).    *)
(***************************************************************************)
\* C28: in a run of process, retrieve and clear calls with no reinforcing
\* update, LTM stays empty: the items of process have importance 0.5,
\* which is not above the threshold.
UnreinforcedNeverPromoted == long_term_memory = <<>>

\* a process call has popped an item off a full STM, an item that was
\* accessed, while LTM had room for it
PoppedUnreinforced ==
    /\ oldest # NoItem
    /\ oldest.access_count >= 1
    /\ oldest.importance = DefaultImportance
    /\ ret.kind = "thought"
    /\ stm_capacity >= 1
    /\ ltm_capacity >= 1
    /\ long_term_memory = <<>>

(***************************************************************************)
(* Properties of the search of process (SpecScan).  After a process call   *)
(* ret is the Thought it returned, ret.stored the input and ret.results    *)
(* the similar memories.                                                   *)
(***************************************************************************)
\* the items of STM before the last one that match the content, by the
\* test of _find_similar
MatchingBefore(content) ==
    {i \in 1..(Len(short_term_memory) - 1) :
        SimilarMatch(content, short_term_memory[i])}

\* C29: with stm_capacity >= 1, the list process returns has between 1 and
\* 5 elements, and the item just stored, the last of STM, has access_count
\* 1 if fewer than 5 matching items precede it in STM and 0 otherwise.
ProcessFindsItself ==
    (ret.kind = "thought" /\ stm_capacity >= 1) =>
       LET item == short_term_memory[Len(short_term_memory)]
       IN  /\ Len(ret.results) >= 1
           /\ Len(ret.results) <= 5
           /\ item.id = next_id - 1
           /\ item.content = ret.stored
           /\ item.access_count =
                 IF Cardinality(MatchingBefore(ret.stored)) < 5
                 THEN 1 ELSE 0

\* process has returned five similar memories, all of items before the one
\* it stored, which was not accessed
LimitReachedBeforeItself ==
    /\ ret.kind = "thought"
    /\ Len(ret.results) = 5
    /\ Len(short_term_memory) = 6
    /\ Cardinality(MatchingBefore(ret.stored)) = 5
    /\ short_term_memory[6].access_count = 0
    /\ \E i \in 1..5 : short_term_memory[i].access_count >= 2

(***************************************************************************)
(* Properties of the scoped workload (SpecScoped): after a retrieve call,  *)
(* call holds its query and memory_type.                                   *)
(***************************************************************************)
\* the list after the call differs from the list before it in nothing but
\* the access_count of items that match the query, risen by 1, and in
\* none at all when the list is out of scope
OnlyMatchesCounted(before, after, query, in_scope) ==
    /\ Ids(after) = Ids(before)
    /\ \A i \in 1..Len(before) :
          /\ after[i].content = before[i].content
          /\ after[i].importance = before[i].importance
          /\ after[i].tags = before[i].tags
          /\ after[i].access_count # before[i].access_count =>
                /\ in_scope
                /\ SearchMatch(query, before[i])
                /\ after[i].access_count = before[i].access_count + 1

\* C30: retrieve changes nothing but the access_count of the items it
\* matches inside the requested scope, and with a memory_type other than
\* "all", "short_term" and "long_term" it returns [] and changes nothing.
RetrieveFrame ==
    [][call'.op = "retrieve" =>
         LET t == call'.memory_type
         IN  /\ OnlyMatchesCounted(short_term_memory, short_term_memory',
                                   call'.arg, t \in {"all", "short_term"})
             /\ OnlyMatchesCounted(long_term_memory, long_term_memory',
                                   call'.arg, t \in {"all", "long_term"})
             /\ UNCHANGED <<stm_capacity, ltm_capacity, state>>
             /\ t \notin {"all", "short_term", "long_term"} =>
                   /\ ret'.results = <<>>
                   /\ UNCHANGED <<short_term_memory, long_term_memory>>
      ]_vars

\* retrieve with memory_type "short_term" has counted a match in STM and
\* passed over an STM item that does not match and an LTM item that does
ScopedRetrieveDone ==
    /\ call.op = "retrieve"
    /\ call.memory_type = "short_term"
    /\ \E i \in 1..Len(short_term_memory) :
          /\ SearchMatch(call.arg, short_term_memory[i])
          /\ short_term_memory[i].access_count = 1
    /\ \E i \in 1..Len(short_term_memory) :
          ~SearchMatch(call.arg, short_term_memory[i])
    /\ \E i \in 1..Len(long_term_memory) :
          /\ SearchMatch(call.arg, long_term_memory[i])
          /\ long_term_memory[i].access_count = 0

=============================================================================
